---------------------------- MODULE Spec2Model ----------------------------
(***************************************************************************)
(* Verification model of the literature-review dashboard's data pipeline:  *)
(* the CSV / spreadsheet record parser, the validator's deduplication, the *)
(* topic classifier, the author network builder and the research gap       *)
(* analyzer.                                                               *)
(*                                                                         *)
(* Strings of the program are sequences of one-character strings, so that  *)
(* scanning, splitting and trimming are modelled character by character.   *)
(* Str(s) turns such a sequence into a TLA+ string where the program       *)
(* compares against one of its literals.                                   *)
(***************************************************************************)
EXTENDS Integers, Sequences, FiniteSets, TLC

VARIABLES
    pc,          \* position of the run
    input,       \* what the caller hands to the operation under analysis
    papers,      \* PaperRecord[] held by the run
    output       \* what the operation returned (or how it failed)

vars == <<pc, input, papers, output>>

-----------------------------------------------------------------------------
(* Characters and strings                                                  *)

UpperChars == <<"A","B","C","D","E","F","G","H","I","J","K","L","M",
                "N","O","P","Q","R","S","T","U","V","W","X","Y","Z">>

LowerChars == <<"a","b","c","d","e","f","g","h","i","j","k","l","m",
                "n","o","p","q","r","s","t","u","v","w","x","y","z">>

DigitChars == <<"0","1","2","3","4","5","6","7","8","9">>

IsUpper(c) == \E i \in 1..26 : UpperChars[i] = c

IsLower(c) == \E i \in 1..26 : LowerChars[i] = c

IsDigit(c) == \E i \in 1..10 : DigitChars[i] = c

DigitVal(c) == (CHOOSE i \in 1..10 : DigitChars[i] = c) - 1

\* \s of the regular expressions and the characters String.trim removes
IsSpace(c) == c \in {" ", "\t", "\r", "\n"}

\* \w of the regular expressions
IsWordChar(c) == IsUpper(c) \/ IsLower(c) \/ IsDigit(c) \/ c = "_"

LowerChar(c) == IF IsUpper(c) THEN LowerChars[CHOOSE i \in 1..26 : UpperChars[i] = c] ELSE c

toLowerCase(s) == [i \in 1..Len(s) |-> LowerChar(s[i])]

RECURSIVE Str(_)
Str(s) == IF s = <<>> THEN "" ELSE Head(s) \o Str(Tail(s))

RECURSIVE trimStart(_)
trimStart(s) == IF s # <<>> /\ IsSpace(Head(s)) THEN trimStart(Tail(s)) ELSE s

RECURSIVE trimEnd(_)
trimEnd(s) == IF s # <<>> /\ IsSpace(s[Len(s)]) THEN trimEnd(SubSeq(s, 1, Len(s) - 1)) ELSE s

trim(s) == trimEnd(trimStart(s))

\* String.includes
includes(s, t) == \E i \in 0..(Len(s) - Len(t)) : SubSeq(s, i + 1, i + Len(t)) = t

startsWith(s, t) == Len(t) <= Len(s) /\ SubSeq(s, 1, Len(t)) = t

\* s.replace(/c/g, '')
RECURSIVE removeChar(_, _)
removeChar(s, c) ==
    IF s = <<>> THEN <<>>
    ELSE IF Head(s) = c THEN removeChar(Tail(s), c)
    ELSE <<Head(s)>> \o removeChar(Tail(s), c)

\* s.split(c) for a one-character separator
RECURSIVE splitChar(_, _)
splitChar(s, c) ==
    IF \A i \in 1..Len(s) : s[i] # c THEN <<s>>
    ELSE LET k == CHOOSE i \in 1..Len(s) : s[i] = c /\ \A j \in 1..(i - 1) : s[j] # c
         IN  <<SubSeq(s, 1, k - 1)>> \o splitChar(SubSeq(s, k + 1, Len(s)), c)

\* parts.join(sep)
RECURSIVE join(_, _)
join(parts, sep) ==
    IF parts = <<>> THEN <<>>
    ELSE IF Len(parts) = 1 THEN parts[1]
    ELSE parts[1] \o sep \o join(Tail(parts), sep)

\* The option type of the program (null / undefined): the empty sequence
Null == <<>>


-----------------------------------------------------------------------------
(* Record parser: data/csvParser (the copy beside dataLoader and           *)
(* excelParser)                                                            *)

\* parseCSVLine's scan: i is the 1-based position of the next character
RECURSIVE scanCSVLine(_, _, _, _, _)
scanCSVLine(line, i, current, inQuotes, fields) ==
    IF i > Len(line) THEN fields \o <<trim(current)>>
    ELSE IF line[i] = "\"" THEN
        IF i + 1 <= Len(line) /\ line[i + 1] = "\""
        THEN scanCSVLine(line, i + 2, current \o <<"\"">>, inQuotes, fields)
        ELSE scanCSVLine(line, i + 1, current, ~inQuotes, fields)
    ELSE IF line[i] = "," /\ ~inQuotes
        THEN scanCSVLine(line, i + 1, <<>>, inQuotes, fields \o <<trim(current)>>)
    ELSE scanCSVLine(line, i + 1, current \o <<line[i]>>, inQuotes, fields)

\* Mutant of parseCSVLine: line.split(','), blind to quoted sections
parseCSVLineNaive(line) ==
    LET cells == splitChar(line, ",") IN [i \in 1..Len(cells) |-> trim(cells[i])]

parseCSVLine(line) == scanCSVLine(line, 1, <<>>, FALSE, <<>>)

\* field.replace(/^"|"$/g, '').trim()
cleanField(field) ==
    LET a == IF field # <<>> /\ Head(field) = "\"" THEN Tail(field) ELSE field
        b == IF a # <<>> /\ a[Len(a)] = "\"" THEN SubSeq(a, 1, Len(a) - 1) ELSE a
    IN  trim(b)

\* The accepted column names of each semantic field; Null where the table has
\* no entry for the name
fieldMappings(name) ==
    CASE name = <<"t","i","t","l","e">> -> <<<<"T","i","t","l","e">>>>
      [] name = <<"a","u","t","h","o","r">> -> <<<<"A","u","t","h","o","r">>>>
      [] name = <<"y","e","a","r">> -> <<<<"P","u","b","l","i","c","a","t","i","o","n"," ","Y","e","a","r">>>>
      [] name = <<"a","b","s","t","r","a","c","t">> -> <<<<"A","b","s","t","r","a","c","t"," ","N","o","t","e">>>>
      [] name = <<"d","o","i">> -> <<<<"D","O","I">>>>
      [] name = <<"u","r","l">> -> <<<<"U","r","l">>>>
      [] name = <<"t","y","p","e">> -> <<<<"I","t","e","m"," ","T","y","p","e">>>>
      [] name = <<"v","e","n","u","e">> -> <<<<"P","u","b","l","i","c","a","t","i","o","n"," ","T","i","t","l","e">>>>
      [] name = <<"k","e","y">> -> <<<<"K","e","y">>>>
      [] name = <<"t","a","g","s">> -> <<<<"M","a","n","u","a","l"," ","T","a","g","s">>, <<"A","u","t","o","m","a","t","i","c"," ","T","a","g","s">>>>
      [] OTHER -> Null

\* headers.findIndex(h => h && (h.toLowerCase() === f.toLowerCase() ||
\*                              h.toLowerCase().includes(f.toLowerCase()))); 0 for -1
findHeaderIndex(headers, possibleField) ==
    LET hit(i) == /\ headers[i] # <<>>
                  /\ \/ toLowerCase(headers[i]) = toLowerCase(possibleField)
                     \/ includes(toLowerCase(headers[i]), toLowerCase(possibleField))
    IN  IF \E i \in 1..Len(headers) : hit(i)
        THEN CHOOSE i \in 1..Len(headers) : hit(i) /\ \A j \in 1..(i - 1) : ~hit(j)
        ELSE 0

RECURSIVE getFieldFrom(_, _, _)
getFieldFrom(headers, fields, possibleFields) ==
    IF possibleFields = <<>> THEN <<>>
    ELSE LET index == findHeaderIndex(headers, Head(possibleFields))
         IN  IF index >= 1 /\ index <= Len(fields) /\ trim(fields[index]) # <<>>
             THEN cleanField(fields[index])
             ELSE getFieldFrom(headers, fields, Tail(possibleFields))

getField(headers, fields, fieldName) ==
    LET mapped == fieldMappings(toLowerCase(fieldName))
    IN  getFieldFrom(headers, fields, IF mapped # Null THEN mapped ELSE <<fieldName>>)

\* a || b on strings
orElse(a, b) == IF a # <<>> THEN a ELSE b

\* The first match of /\b(19|20)\d{2}\b/ in s starts at i
yearMatchAt(s, i) ==
    /\ i + 3 <= Len(s)
    /\ SubSeq(s, i, i + 1) \in {<<"1","9">>, <<"2","0">>}
    /\ IsDigit(s[i + 2]) /\ IsDigit(s[i + 3])
    /\ (i = 1 \/ ~IsWordChar(s[i - 1]))
    /\ (i + 3 = Len(s) \/ ~IsWordChar(s[i + 4]))

\* parseInt of a run of digits
RECURSIVE parseInt(_)
parseInt(d) == IF d = <<>> THEN 0 ELSE 10 * parseInt(SubSeq(d, 1, Len(d) - 1)) + DigitVal(d[Len(d)])

\* Mutant of parseYear: the first four-digit year, without the range check
parseYearAnyCentury(yearStr) ==
    IF \E i \in 1..Len(yearStr) : yearMatchAt(yearStr, i)
    THEN LET k == CHOOSE i \in 1..Len(yearStr) :
                      yearMatchAt(yearStr, i) /\ \A j \in 1..(i - 1) : ~yearMatchAt(yearStr, j)
         IN  <<parseInt(SubSeq(yearStr, k, k + 3))>>
    ELSE Null

\* number | null: <<year>> or Null
parseYear(yearStr) ==
    IF yearStr = <<>> THEN Null
    ELSE IF \E i \in 1..Len(yearStr) : yearMatchAt(yearStr, i)
    THEN LET k == CHOOSE i \in 1..Len(yearStr) :
                      yearMatchAt(yearStr, i) /\ \A j \in 1..(i - 1) : ~yearMatchAt(yearStr, j)
             year == parseInt(SubSeq(yearStr, k, k + 3))
         IN  IF year >= 1990 /\ year <= 2025 THEN <<year>> ELSE Null
    ELSE Null

\* The first index >= i of s that holds no whitespace (Len(s) + 1 if none)
RECURSIVE skipSpaces(_, _)
skipSpaces(s, i) == IF i <= Len(s) /\ IsSpace(s[i]) THEN skipSpaces(s, i + 1) ELSE i

\* s.split(/[;,&]|and\s+/), and with newline the spreadsheet parser's
\* s.split(/[;,&]|and\s+|\n/)
RECURSIVE splitAuthors(_, _, _, _, _)
splitAuthors(s, i, current, parts, newline) ==
    IF i > Len(s) THEN parts \o <<current>>
    ELSE IF s[i] \in {";", ",", "&"} \/ (newline /\ s[i] = "\n")
        THEN splitAuthors(s, i + 1, <<>>, parts \o <<current>>, newline)
    ELSE IF i + 3 <= Len(s) /\ SubSeq(s, i, i + 2) = <<"a","n","d">> /\ IsSpace(s[i + 3])
        THEN splitAuthors(s, skipSpaces(s, i + 3), <<>>, parts \o <<current>>, newline)
    ELSE splitAuthors(s, i + 1, current \o <<s[i]>>, parts, newline)

\* name.replace(/^(Dr\.|Prof\.|Mr\.|Ms\.|Mrs\.)\s*/i, '')
stripHonorific(name) ==
    LET prefixes == {<<"d","r",".">>, <<"p","r","o","f",".">>, <<"m","r",".">>, <<"m","s",".">>, <<"m","r","s",".">>}
        low == toLowerCase(name)
    IN  IF \E p \in prefixes : startsWith(low, p)
        THEN LET p == CHOOSE q \in prefixes : startsWith(low, q)
             IN  trimStart(SubSeq(name, Len(p) + 1, Len(name)))
        ELSE name

\* name.replace(/\s*(Jr\.|Sr\.|III|IV)\.?$/i, '')
stripSuffix(name) ==
    LET forms == {<<"j","r",".">>, <<"j","r",".",".">>, <<"s","r",".">>, <<"s","r",".",".">>, <<"i","i","i">>, <<"i","i","i",".">>, <<"i","v">>, <<"i","v",".">>}
        low == toLowerCase(name)
        at(k) == SubSeq(low, k, Len(low)) \in forms
    IN  IF \E k \in 1..Len(name) : at(k)
        THEN LET k == CHOOSE q \in 1..Len(name) : at(q) /\ \A j \in 1..(q - 1) : ~at(j)
             IN  trimEnd(SubSeq(name, 1, k - 1))
        ELSE name

\* csvParser's cleanAuthorName (it keeps the case)
cleanAuthorNameField(name) == trim(stripSuffix(stripHonorific(name)))

nonEmpty(s) == s # <<>>

parseAuthors(authorsStr) ==
    IF authorsStr = <<>> THEN <<>>
    ELSE LET parts == splitAuthors(authorsStr, 1, <<>>, <<>>, FALSE)
             trimmed == [i \in 1..Len(parts) |-> trim(parts[i])]
             kept == SelectSeq(trimmed, nonEmpty)
         IN  [i \in 1..Len(kept) |-> cleanAuthorNameField(kept[i])]

\* s.split(/[;,]/), and with newline the spreadsheet parser's s.split(/[;,\n]/)
RECURSIVE splitTags(_, _, _, _, _)
splitTags(s, i, current, parts, newline) ==
    IF i > Len(s) THEN parts \o <<current>>
    ELSE IF s[i] \in {";", ","} \/ (newline /\ s[i] = "\n")
        THEN splitTags(s, i + 1, <<>>, parts \o <<current>>, newline)
    ELSE splitTags(s, i + 1, current \o <<s[i]>>, parts, newline)

parseTags(tagsStr) ==
    IF tagsStr = <<>> THEN <<>>
    ELSE LET parts == splitTags(tagsStr, 1, <<>>, <<>>, FALSE)
             trimmed == [i \in 1..Len(parts) |-> trim(parts[i])]
         IN  SelectSeq(trimmed, nonEmpty)

\* s.split(/\s+/)
RECURSIVE splitSpaces(_, _, _, _)
splitSpaces(s, i, current, parts) ==
    IF i > Len(s) THEN parts \o <<current>>
    ELSE IF IsSpace(s[i]) THEN splitSpaces(s, skipSpaces(s, i), <<>>, parts \o <<current>>)
    ELSE splitSpaces(s, i + 1, current \o <<s[i]>>, parts)

\* `${authorLastName.toLowerCase()}_${titleWords.join('_')}`; firstAuthor may
\* be undefined (Null)
generateKey(title, firstAuthor) ==
    LET words == splitSpaces(toLowerCase(title), 1, <<>>, <<>>)
        titleWords == SubSeq(words, 1, IF Len(words) < 3 THEN Len(words) ELSE 3)
        names == splitChar(firstAuthor, " ")
        authorLastName == IF firstAuthor # Null THEN names[Len(names)] ELSE <<>>
    IN  toLowerCase(authorLastName) \o <<"_">> \o join(titleWords, <<"_">>)

\* PaperRecord | null: <<record>> or Null
createPaperRecord(headers, fields) ==
    LET get(name) == getField(headers, fields, name)
        title == get(<<"t","i","t","l","e">>)
        yearStr == orElse(get(<<"y","e","a","r">>), get(<<"d","a","t","e">>))
        authors == parseAuthors(orElse(get(<<"a","u","t","h","o","r">>), get(<<"a","u","t","h","o","r","s">>)))
        manualTags == get(<<"M","a","n","u","a","l"," ","T","a","g","s">>)
        autoTags == get(<<"A","u","t","o","m","a","t","i","c"," ","T","a","g","s">>)
        combinedTagsStr == join(SelectSeq(<<manualTags, autoTags>>, nonEmpty), <<";"," ">>)
        venue == orElse(get(<<"v","e","n","u","e">>), get(<<"P","u","b","l","i","c","a","t","i","o","n"," ","T","i","t","l","e">>))
    IN  IF title = <<>> \/ Len(title) < 5 THEN Null
        ELSE <<[key |-> orElse(get(<<"k","e","y">>),
                               generateKey(title, IF authors # <<>> THEN authors[1] ELSE <<"u","n","k","n","o","w","n">>)),
                itemType |-> orElse(get(<<"t","y","p","e">>), orElse(get(<<"i","t","e","m","t","y","p","e">>), <<"a","r","t","i","c","l","e">>)),
                publicationYear |-> parseYear(yearStr),
                authors |-> IF Len(authors) > 0 THEN authors ELSE <<<<"U","n","k","n","o","w","n"," ","A","u","t","h","o","r">>>>,
                title |-> title,
                publicationTitle |-> venue,
                doi |-> get(<<"d","o","i">>),
                url |-> get(<<"u","r","l">>),
                abstract |-> get(<<"a","b","s","t","r","a","c","t">>),
                tags |-> parseTags(combinedTagsStr),
                venue |-> venue]>>

\* The loop of parseCSV over lines[i..]
RECURSIVE parseLines(_, _, _, _)
parseLines(headers, lines, i, acc) ==
    IF i > Len(lines) THEN acc
    ELSE LET line == trim(lines[i])
             fields == parseCSVLine(line)
         IN  IF line = <<>> THEN parseLines(headers, lines, i + 1, acc)
             ELSE IF 2 * Len(fields) < Len(headers) THEN parseLines(headers, lines, i + 1, acc)
             ELSE parseLines(headers, lines, i + 1, acc \o createPaperRecord(headers, fields))

parseCSV(csvContent) ==
    LET lines == splitChar(csvContent, "\n")
        cells == parseCSVLine(lines[1])
        headers == [i \in 1..Len(cells) |-> removeChar(trim(cells[i]), "\"")]
    IN  IF Len(lines) < 2 THEN <<>> ELSE parseLines(headers, lines, 2, <<>>)

-----------------------------------------------------------------------------
(* Record parser: src/data/csvParser.ts, the copy the test suite imports.  *)
(* Its getField, cleanField, parseYear, parseAuthors, parseTags and        *)
(* generateKey are the ones above.                                         *)

\* parseCSVLine without the doubled-quote case: every quote toggles
RECURSIVE scanCSVLine0(_, _, _, _, _)
scanCSVLine0(line, i, current, inQuotes, fields) ==
    IF i > Len(line) THEN fields \o <<trim(current)>>
    ELSE IF line[i] = "\"" THEN scanCSVLine0(line, i + 1, current, ~inQuotes, fields)
    ELSE IF line[i] = "," /\ ~inQuotes
        THEN scanCSVLine0(line, i + 1, <<>>, inQuotes, fields \o <<trim(current)>>)
    ELSE scanCSVLine0(line, i + 1, current \o <<line[i]>>, inQuotes, fields)

parseCSVLine0(line) == scanCSVLine0(line, 1, <<>>, FALSE, <<>>)

createPaperRecord0(headers, fields) ==
    LET get(name) == getField(headers, fields, name)
        title == get(<<"t","i","t","l","e">>)
        yearStr == orElse(get(<<"y","e","a","r">>), get(<<"d","a","t","e">>))
        authors == parseAuthors(orElse(get(<<"a","u","t","h","o","r">>), get(<<"a","u","t","h","o","r","s">>)))
        manualTags == get(<<"M","a","n","u","a","l"," ","T","a","g","s">>)
        autoTags == get(<<"A","u","t","o","m","a","t","i","c"," ","T","a","g","s">>)
        combinedTagsStr == join(SelectSeq(<<manualTags, autoTags>>, nonEmpty), <<";"," ">>)
        publication == orElse(get(<<"p","u","b","l","i","c","a","t","i","o","n">>), orElse(get(<<"j","o","u","r","n","a","l">>), get(<<"b","o","o","k","t","i","t","l","e">>)))
    IN  IF title = <<>> THEN Null
        ELSE <<[key |-> orElse(get(<<"k","e","y">>),
                               generateKey(title, IF authors # <<>> THEN authors[1] ELSE Null)),
                itemType |-> orElse(get(<<"t","y","p","e">>), orElse(get(<<"i","t","e","m","t","y","p","e">>), <<"a","r","t","i","c","l","e">>)),
                publicationYear |-> parseYear(yearStr),
                authors |-> authors,
                title |-> title,
                publicationTitle |-> publication,
                doi |-> get(<<"d","o","i">>),
                url |-> get(<<"u","r","l">>),
                abstract |-> get(<<"a","b","s","t","r","a","c","t">>),
                tags |-> parseTags(combinedTagsStr),
                venue |-> orElse(get(<<"v","e","n","u","e">>), orElse(get(<<"p","u","b","l","i","c","a","t","i","o","n">>), get(<<"j","o","u","r","n","a","l">>)))]>>

RECURSIVE parseLines0(_, _, _, _)
parseLines0(headers, lines, i, acc) ==
    IF i > Len(lines) THEN acc
    ELSE LET line == trim(lines[i])
             fields == parseCSVLine0(line)
         IN  IF line = <<>> THEN parseLines0(headers, lines, i + 1, acc)
             ELSE IF Len(fields) < Len(headers) THEN parseLines0(headers, lines, i + 1, acc)
             ELSE parseLines0(headers, lines, i + 1, acc \o createPaperRecord0(headers, fields))

parseCSV0(csvContent) ==
    LET lines == splitChar(csvContent, "\n")
        cells == splitChar(lines[1], ",")
        headers == [i \in 1..Len(cells) |-> removeChar(trim(cells[i]), "\"")]
    IN  parseLines0(headers, lines, 2, <<>>)

-----------------------------------------------------------------------------
(* A tabular dataset and its CSV text.  A sheet is a header row and data   *)
(* rows of cells; toCSV writes it the way the reference manager's export   *)
(* and the test fixture do: one line per row, every cell double-quoted,    *)
(* a quote inside a cell doubled.                                          *)

RECURSIVE escapeQuotes(_)
escapeQuotes(s) ==
    IF s = <<>> THEN <<>>
    ELSE IF Head(s) = "\"" THEN <<"\"", "\"">> \o escapeQuotes(Tail(s))
    ELSE <<Head(s)>> \o escapeQuotes(Tail(s))

quoteCell(cell) == <<"\"">> \o escapeQuotes(cell) \o <<"\"">>

toCSVLine(row) == join([i \in 1..Len(row) |-> quoteCell(row[i])], <<",">>)

toCSV(sheet) ==
    join(<<join(sheet.headers, <<",">>)>> \o [i \in 1..Len(sheet.rows) |-> toCSVLine(sheet.rows[i])],
         <<"\n">>)

\* Sequences over S of length 0..n
RECURSIVE SeqsUpTo(_, _)
SeqsUpTo(S, n) ==
    IF n = 0 THEN {<<>>}
    ELSE LET shorter == SeqsUpTo(S, n - 1)
         IN  shorter \cup {Append(s, x) : s \in {t \in shorter : Len(t) = n - 1}, x \in S}

\* n copies of character c
Rep(c, n) == [i \in 1..n |-> c]

MaxTitleLen == 5

MaxRows == 2

\* Titles of n characters: plain, or holding a comma, a double quote or a
\* line break at the third position
TitleOf(n, kind) ==
    CASE kind = "plain" -> Rep("a", n)
      [] kind = "comma" -> <<"a", "b">> \o <<",">> \o Rep("c", n - 3)
      [] kind = "quote" -> <<"a", "b">> \o <<"\"">> \o Rep("c", n - 3)
      [] kind = "break" -> <<"a", "b">> \o <<"\n">> \o Rep("c", n - 3)

ParseHeaders == <<<<"T","i","t","l","e">>, <<"A","u","t","h","o","r">>, <<"D","O","I">>>>

\* A full row for ParseHeaders with the given title
RowOf(title) == <<title, <<"A","n","n"," ","L","e","e">>, <<"1","0",".","1","0","0","0","/","t","1">>>>

\* The rows of the parser runs: a full row for every title, and the rows
\* with a plain title cut after the first or the second cell
ParseRows ==
    {RowOf(TitleOf(n, k)) : n \in 4..MaxTitleLen, k \in {"plain", "comma", "quote", "break"}}
    \cup {SubSeq(RowOf(TitleOf(n, "plain")), 1, m) : n \in 4..MaxTitleLen, m \in 1..2}

ParseSheets == {[headers |-> ParseHeaders, rows |-> r] : r \in SeqsUpTo(ParseRows, MaxRows)}

-----------------------------------------------------------------------------
(* Runs of the parser alone, as the test suite calls it                    *)

InitParse ==
    /\ pc = "start"
    /\ \E s \in ParseSheets, p \in {"parseCSV", "parseCSV0"} :
           input = [sheet |-> s, csvContent |-> toCSV(s), parser |-> p]
    /\ papers = <<>>
    /\ output = Null

RunParseCSV ==
    /\ pc = "start"
    /\ input.parser = "parseCSV"
    /\ papers' = parseCSV(input.csvContent)
    /\ pc' = "parsed"
    /\ UNCHANGED <<input, output>>

RunParseCSV0 ==
    /\ pc = "start"
    /\ input.parser = "parseCSV0"
    /\ papers' = parseCSV0(input.csvContent)
    /\ pc' = "parsed"
    /\ UNCHANGED <<input, output>>

NextParse == RunParseCSV \/ RunParseCSV0

SpecParse == InitParse /\ [][NextParse]_vars

\* The titles of the records, in order
titlesOf(records) == [i \in 1..Len(records) |-> records[i].title]

hasChar(s, c) == \E i \in 1..Len(s) : s[i] = c

\* Every row is one line of the text and carries a non-empty title
RowsCarryTitle(sheet) ==
    \A i \in 1..Len(sheet.rows) :
        /\ sheet.rows[i][1] # <<>>
        /\ \A j \in 1..Len(sheet.rows[i]) : ~hasChar(sheet.rows[i][j], "\n")

\* Every row is one line of the text, has a cell for every column, and its
\* title has at least 5 characters, none of them a double quote
RowsComplete(sheet) ==
    \A i \in 1..Len(sheet.rows) :
        /\ Len(sheet.rows[i]) = Len(sheet.headers)
        /\ Len(sheet.rows[i][1]) >= 5
        /\ ~hasChar(sheet.rows[i][1], "\"")
        /\ \A j \in 1..Len(sheet.rows[i]) : ~hasChar(sheet.rows[i][j], "\n")

-----------------------------------------------------------------------------
(* Runs of parseYear, alone and on the year cell of a one-row dataset       *)

MaxYearLen == 4

YearChars == {"1", "9", "2", "0", "8", "-"}

YearHeaders == <<<<"T","i","t","l","e">>, <<"P","u","b","l","i","c","a","t","i","o","n"," ","Y","e","a","r">>>>

YearSheet(yearStr) == [headers |-> YearHeaders, rows |-> <<<<<<"T","e","s","t"," ","P","a","p","e","r"," ","1">>, yearStr>>>>]

InitYear ==
    /\ pc = "start"
    /\ \E y \in SeqsUpTo(YearChars, MaxYearLen) :
           input = [yearStr |-> y, csvContent |-> toCSV(YearSheet(y))]
    /\ papers = <<>>
    /\ output = Null

RunParseYear ==
    /\ pc = "start"
    /\ output' = parseYear(input.yearStr)
    /\ papers' = parseCSV(input.csvContent)
    /\ pc' = "parsed"
    /\ UNCHANGED input

NextYear == RunParseYear

SpecYear == InitYear /\ [][NextYear]_vars

\* The year text is one four-digit number outside 1990..2025
OnlyOutOfRangeYear(yearStr) ==
    /\ Len(yearStr) = 4
    /\ \A i \in 1..4 : IsDigit(yearStr[i])
    /\ LET n == 1000 * DigitVal(yearStr[1]) + 100 * DigitVal(yearStr[2])
                + 10 * DigitVal(yearStr[3]) + DigitVal(yearStr[4])
       IN  n < 1990 \/ n > 2025

\* C4: parseYear returns null or an integer in 1990..2025 for every year
\* string, and a row whose year text is only an out-of-range year is still
\* returned as a record, with publicationYear = null.
C4_YearNullOrInRange ==
    pc = "parsed" =>
        /\ output = Null \/ (Len(output) = 1 /\ output[1] >= 1990 /\ output[1] <= 2025)
        /\ OnlyOutOfRangeYear(input.yearStr) =>
               (Len(papers) = 1 /\ papers[1].publicationYear = Null)

C4_Witness ==
    /\ pc = "parsed"
    /\ input.yearStr = <<"1","8","9","9">>
    /\ Len(papers) = 1
    /\ papers[1].title = <<"T","e","s","t"," ","P","a","p","e","r"," ","1">>
    /\ papers[1].publicationYear = Null

-----------------------------------------------------------------------------
(* Validator / cleaner: utils/dataValidation.ts                            *)

\* s.replace(/[^\w\s]/g, '')
RECURSIVE removePunctuation(_)
removePunctuation(s) ==
    IF s = <<>> THEN <<>>
    ELSE IF IsWordChar(Head(s)) \/ IsSpace(Head(s)) THEN <<Head(s)>> \o removePunctuation(Tail(s))
    ELSE removePunctuation(Tail(s))

\* s.replace(/\s+/g, ' ')
RECURSIVE collapseSpaces(_)
collapseSpaces(s) ==
    IF s = <<>> THEN <<>>
    ELSE IF IsSpace(Head(s)) THEN <<" ">> \o collapseSpaces(SubSeq(s, skipSpaces(s, 1), Len(s)))
    ELSE <<Head(s)>> \o collapseSpaces(Tail(s))

normalizeTitleForComparison(title) == trim(collapseSpaces(removePunctuation(toLowerCase(title))))

\* The same loop with the titles compared as written, without normalization
RECURSIVE removeExactDuplicatesFrom(_, _, _, _)
removeExactDuplicatesFrom(list, i, seenTitles, uniquePapers) ==
    IF i > Len(list) THEN uniquePapers
    ELSE IF list[i].title \notin seenTitles
         THEN removeExactDuplicatesFrom(list, i + 1, seenTitles \cup {list[i].title},
                                        Append(uniquePapers, list[i]))
         ELSE removeExactDuplicatesFrom(list, i + 1, seenTitles, uniquePapers)

\* The forEach of removeDuplicatePapers over list[i..]
RECURSIVE removeDuplicatesFrom(_, _, _, _)
removeDuplicatesFrom(list, i, seenTitles, uniquePapers) ==
    IF i > Len(list) THEN uniquePapers
    ELSE LET normalizedTitle == normalizeTitleForComparison(list[i].title)
         IN  IF normalizedTitle \notin seenTitles
             THEN removeDuplicatesFrom(list, i + 1, seenTitles \cup {normalizedTitle},
                                       Append(uniquePapers, list[i]))
             ELSE removeDuplicatesFrom(list, i + 1, seenTitles, uniquePapers)

removeDuplicatePapers(list) == removeDuplicatesFrom(list, 1, {}, <<>>)

-----------------------------------------------------------------------------
(* Runs of parsing followed by deduplication.  The Key cell of a row is    *)
(* either empty or the identifier the reference manager gave the entry,    *)
(* which is unique in the export.                                          *)

DedupHeaders == <<<<"K","e","y">>, <<"T","i","t","l","e">>, <<"A","u","t","h","o","r">>>>

DedupTitles == {<<"O","n"," ","A","I"," ","r","i","s","k"," ","A">>, <<"O","n"," ","A","I"," ","r","i","s","k"," ","B">>, <<"o","n"," ","a","i"," ","r","i","s","k",":"," ","a">>}

DedupAuthors == {<<"A","n","n"," ","L","e","e">>, <<"B","o","b"," ","L","e","e">>}

DedupChoices == [hasKey : BOOLEAN, title : DedupTitles, author : DedupAuthors]

DedupSheet(choices) ==
    [headers |-> DedupHeaders,
     rows |-> [i \in 1..Len(choices) |->
                  <<IF choices[i].hasKey THEN <<"K", DigitChars[i + 1]>> ELSE <<>>,
                    choices[i].title, choices[i].author>>]]

InitDedup ==
    /\ pc = "start"
    /\ \E c \in SeqsUpTo(DedupChoices, MaxRows) :
           input = [sheet |-> DedupSheet(c), csvContent |-> toCSV(DedupSheet(c))]
    /\ papers = <<>>
    /\ output = Null

ParseForDedup ==
    /\ pc = "start"
    /\ papers' = parseCSV(input.csvContent)
    /\ pc' = "parsed"
    /\ UNCHANGED <<input, output>>

RunRemoveDuplicatePapers ==
    /\ pc = "parsed"
    /\ papers' = removeDuplicatePapers(papers)
    /\ pc' = "deduplicated"
    /\ UNCHANGED <<input, output>>

NextDedup == ParseForDedup \/ RunRemoveDuplicatePapers

SpecDedup == InitDedup /\ [][NextDedup]_vars

\* C3: after parsing and deduplication no two records have the same key.
C3_KeysUniqueAfterDedup ==
    pc = "deduplicated" =>
        \A i, j \in 1..Len(papers) : i # j => papers[i].key # papers[j].key

-----------------------------------------------------------------------------
(* removeDuplicatePapers on its own, applied to lists of records whose     *)
(* titles repeat under other spellings.                                    *)

\* Most records in a list handed to removeDuplicatePapers
MaxDedupRows == 3

DedupRecords ==
    [key : {<<"K","1">>, <<"K","2">>},
     title : {<<"O","n"," ","A","I"," ","r","i","s","k"," ","A">>, <<"o","n"," "," ","a","i"," ","r","i","s","k",":"," ","a">>, <<"O","n"," ","A","I"," ","r","i","s","k"," ","B">>, <<" ","O","n"," ","A","I"," ","r","i","s","k",","," ","B">>}]

InitUnique ==
    /\ pc = "start"
    /\ input = Null
    /\ papers \in SeqsUpTo(DedupRecords, MaxDedupRows)
    /\ output = Null

CallRemoveDuplicatePapers ==
    /\ pc = "start"
    /\ output' = removeDuplicatePapers(papers)
    /\ pc' = "deduplicated"
    /\ UNCHANGED <<input, papers>>

\* The result is handed to removeDuplicatePapers again
CallRemoveDuplicatePapersAgain ==
    /\ pc = "deduplicated"
    /\ output' = removeDuplicatePapers(output)
    /\ pc' = "repeated"
    /\ UNCHANGED <<input, papers>>

NextUnique == CallRemoveDuplicatePapers \/ CallRemoveDuplicatePapersAgain

SpecUnique == InitUnique /\ [][NextUnique]_vars

\* kept is an order-preserving subsequence of before, and each record of
\* kept is the first one of before with its normalized title
keepsFirstOccurrences(before, kept) ==
    \E at \in [1..Len(kept) -> 1..Len(before)] :
        /\ \A k \in 1..Len(kept) : kept[k] = before[at[k]]
        /\ \A k, l \in 1..Len(kept) : k < l => at[k] < at[l]
        /\ \A k \in 1..Len(kept) : \A i \in 1..(at[k] - 1) :
               normalizeTitleForComparison(before[i].title)
                   # normalizeTitleForComparison(kept[k].title)

\* C16: the result of removeDuplicatePapers is an order-preserving
\* subsequence of its input, no two of its records have the same normalized
\* title, every kept record is the first input record with its normalized
\* title, and removing duplicates from the result changes nothing.
C16_DedupKeepsFirstOccurrences ==
    /\ [](pc = "deduplicated" =>
             /\ keepsFirstOccurrences(papers, output)
             /\ \A k, l \in 1..Len(output) :
                    k # l => normalizeTitleForComparison(output[k].title)
                                 # normalizeTitleForComparison(output[l].title))
    /\ [][pc = "deduplicated" => output' = output]_vars

\* Three records of which the third repeats the first under another
\* spelling, deduplicated twice
C16_Witness ==
    /\ pc = "repeated"
    /\ Len(papers) = 3
    /\ papers[1].title # papers[3].title
    /\ normalizeTitleForComparison(papers[1].title)
           = normalizeTitleForComparison(papers[3].title)
    /\ output = <<papers[1], papers[2]>>

-----------------------------------------------------------------------------
(* Quality metrics: calculateQualityMetrics of data/csvParser.  A          *)
(* percentage (count / total) * 100 is kept as the exact fraction          *)
(* num / den = (100 * count) / total.                                      *)

percentOf(count, total) == [num |-> 100 * count, den |-> total]

\* papers.filter(keep).length for a predicate given as the set of indices it keeps
countWhere(list, kept) == Cardinality({i \in 1..Len(list) : i \in kept})

\* Mutant of hasText: the field is merely present (no trim)
hasTextUntrimmed(s) == s # <<>>

\* s && s.trim().length > 0
hasText(s) == s # <<>> /\ Len(trim(s)) > 0

calculateQualityMetrics(list, currentYear) ==
    LET totalPapers == Len(list)
        doiCount == countWhere(list, {i \in 1..Len(list) : hasText(list[i].doi)})
        urlCount == countWhere(list, {i \in 1..Len(list) : hasText(list[i].url)})
        abstractCount == countWhere(list, {i \in 1..Len(list) : hasText(list[i].abstract)})
        recentCount == countWhere(list, {i \in 1..Len(list) :
                           /\ list[i].publicationYear # Null
                           /\ list[i].publicationYear[1] >= currentYear - 5})
    IN  [totalPapers |-> totalPapers,
         doiCoverage |-> percentOf(doiCount, totalPapers),
         urlCoverage |-> percentOf(urlCount, totalPapers),
         abstractCoverage |-> percentOf(abstractCount, totalPapers),
         recentPapers |-> percentOf(recentCount, totalPapers)]

-----------------------------------------------------------------------------
(* Runs of calculateQualityMetrics on datasets of up to MaxPapers records   *)

MaxPapers == 3

QualityPapers ==
    {[key |-> <<"K","1">>, title |-> <<"T","e","s","t"," ","P","a","p","e","r"," ","1">>, abstract |-> <<"A","b","o","u","t"," ","r","i","s","k">>,
      publicationYear |-> y, doi |-> d, url |-> u] :
        d \in {<<>>, <<" ">>, <<"1","0",".","1","0","0","0","/","t","1">>}, u \in {<<>>, <<"h","t","t","p",":","/","/","e",".","c","o","m","/","1">>},
        y \in {Null, <<2023>>}}

InitQuality ==
    /\ pc = "start"
    /\ input = [currentYear |-> 2026]
    /\ papers \in SeqsUpTo(QualityPapers, MaxPapers)
    /\ output = Null

RunCalculateQualityMetrics ==
    /\ pc = "start"
    /\ output' = calculateQualityMetrics(papers, input.currentYear)
    /\ pc' = "done"
    /\ UNCHANGED <<input, papers>>

NextQuality == RunCalculateQualityMetrics

SpecQuality == InitQuality /\ [][NextQuality]_vars

\* The records whose DOI holds a character that is not white space
withDOI(list) ==
    {i \in 1..Len(list) : \E k \in 1..Len(list[i].doi) : ~IsSpace(list[i].doi[k])}

\* C9: for a non-empty dataset doiCoverage = 100 x (records with a non-blank
\* DOI) / (records); it is exactly 100 when every record has a DOI and lies
\* between 0 and 100.
C9_DoiCoverage ==
    (pc = "done" /\ Len(papers) > 0) =>
        /\ output.doiCoverage.den = Len(papers)
        /\ output.doiCoverage.num = 100 * Cardinality(withDOI(papers))
        /\ 0 <= output.doiCoverage.num
        /\ output.doiCoverage.num <= 100 * output.doiCoverage.den
        /\ (withDOI(papers) = 1..Len(papers))
               => output.doiCoverage.num = 100 * output.doiCoverage.den

C9_Witness ==
    /\ pc = "done"
    /\ Len(papers) = 3
    /\ withDOI(papers) = 1..3
    /\ output.doiCoverage = [num |-> 300, den |-> 3]

-----------------------------------------------------------------------------
(* Topic classifier: utils/textAnalysis.  Topic ids and labels are strings, *)
(* texts and keywords are character sequences.  A score                     *)
(* count / max(length / 100, 1) is kept as the exact fraction               *)
(* (100 * count) / max(length, 100).                                        *)

TOPIC_KEYWORDS == <<
    [topic |-> "security", keywords |-> <<
        <<"s","e","c","u","r","i","t","y">>, <<"c","y","b","e","r","s","e","c","u","r","i","t","y">>, <<"c","y","b","e","r">>, <<"a","t","t","a","c","k">>, <<"d","e","f","e","n","s","e">>, <<"t","h","r","e","a","t">>, <<"v","u","l","n","e","r","a","b","i","l","i","t","y">>,
        <<"m","a","l","w","a","r","e">>, <<"i","n","t","r","u","s","i","o","n">>, <<"b","r","e","a","c","h">>, <<"p","r","o","t","e","c","t","i","o","n">>, <<"s","e","c","u","r","e">>, <<"e","n","c","r","y","p","t","i","o","n">>, <<"a","u","t","h","e","n","t","i","c","a","t","i","o","n">>,
        <<"a","u","t","h","o","r","i","z","a","t","i","o","n">>, <<"f","i","r","e","w","a","l","l">>, <<"i","d","s">>, <<"i","p","s">>, <<"f","o","r","e","n","s","i","c","s">>, <<"i","n","c","i","d","e","n","t">>>>],
    [topic |-> "economics", keywords |-> <<
        <<"e","c","o","n","o","m","i","c">>, <<"e","c","o","n","o","m","i","c","s">>, <<"c","o","s","t">>, <<"b","e","n","e","f","i","t">>, <<"i","n","v","e","s","t","m","e","n","t">>, <<"r","o","i">>, <<"m","a","r","k","e","t">>, <<"p","r","i","c","e">>,
        <<"p","r","i","c","i","n","g">>, <<"i","n","c","e","n","t","i","v","e">>, <<"u","t","i","l","i","t","y">>, <<"p","r","o","f","i","t">>, <<"l","o","s","s">>, <<"b","u","d","g","e","t">>, <<"f","i","n","a","n","c","i","a","l">>,
        <<"m","o","n","e","t","a","r","y">>, <<"v","a","l","u","e">>, <<"w","o","r","t","h">>, <<"e","x","p","e","n","s","e">>, <<"r","e","v","e","n","u","e">>, <<"i","n","s","u","r","a","n","c","e">>>>],
    [topic |-> "risk", keywords |-> <<
        <<"r","i","s","k">>, <<"r","i","s","k","s">>, <<"r","i","s","k","y">>, <<"u","n","c","e","r","t","a","i","n","t","y">>, <<"p","r","o","b","a","b","i","l","i","t","y">>, <<"l","i","k","e","l","i","h","o","o","d">>, <<"a","s","s","e","s","s","m","e","n","t">>,
        <<"m","a","n","a","g","e","m","e","n","t">>, <<"m","i","t","i","g","a","t","i","o","n">>, <<"a","n","a","l","y","s","i","s">>, <<"e","v","a","l","u","a","t","i","o","n">>, <<"m","e","a","s","u","r","e","m","e","n","t">>, <<"q","u","a","n","t","i","f","i","c","a","t","i","o","n">>,
        <<"m","o","d","e","l","i","n","g">>, <<"p","r","e","d","i","c","t","i","o","n">>, <<"f","o","r","e","c","a","s","t">>, <<"s","c","e","n","a","r","i","o">>, <<"i","m","p","a","c","t">>, <<"c","o","n","s","e","q","u","e","n","c","e">>>>],
    [topic |-> "aiml", keywords |-> <<
        <<"a","r","t","i","f","i","c","i","a","l">>, <<"i","n","t","e","l","l","i","g","e","n","c","e">>, <<"m","a","c","h","i","n","e">>, <<"l","e","a","r","n","i","n","g">>, <<"n","e","u","r","a","l">>, <<"n","e","t","w","o","r","k">>, <<"d","e","e","p">>,
        <<"a","l","g","o","r","i","t","h","m">>, <<"m","o","d","e","l">>, <<"t","r","a","i","n","i","n","g">>, <<"c","l","a","s","s","i","f","i","c","a","t","i","o","n">>, <<"p","r","e","d","i","c","t","i","o","n">>, <<"a","i">>, <<"m","l">>,
        <<"d","a","t","a">>, <<"m","i","n","i","n","g">>, <<"p","a","t","t","e","r","n">>, <<"r","e","c","o","g","n","i","t","i","o","n">>, <<"a","u","t","o","m","a","t","i","o","n">>, <<"c","o","g","n","i","t","i","v","e">>>>],
    [topic |-> "gameTheory", keywords |-> <<
        <<"g","a","m","e">>, <<"t","h","e","o","r","y">>, <<"s","t","r","a","t","e","g","i","c">>, <<"p","l","a","y","e","r">>, <<"s","t","r","a","t","e","g","y">>, <<"e","q","u","i","l","i","b","r","i","u","m">>, <<"n","a","s","h">>,
        <<"p","a","y","o","f","f">>, <<"c","o","o","p","e","r","a","t","i","o","n">>, <<"c","o","m","p","e","t","i","t","i","o","n">>, <<"c","o","a","l","i","t","i","o","n">>, <<"b","a","r","g","a","i","n","i","n","g">>, <<"a","u","c","t","i","o","n">>,
        <<"m","e","c","h","a","n","i","s","m">>, <<"d","e","s","i","g","n">>, <<"o","p","t","i","m","a","l">>, <<"d","e","c","i","s","i","o","n">>, <<"r","a","t","i","o","n","a","l">>, <<"b","e","h","a","v","i","o","r">>>>],
    [topic |-> "network", keywords |-> <<
        <<"n","e","t","w","o","r","k">>, <<"n","e","t","w","o","r","k","s">>, <<"n","e","t","w","o","r","k","i","n","g">>, <<"t","o","p","o","l","o","g","y">>, <<"n","o","d","e">>, <<"e","d","g","e">>, <<"g","r","a","p","h">>,
        <<"c","o","n","n","e","c","t","i","v","i","t","y">>, <<"r","o","u","t","i","n","g">>, <<"p","r","o","t","o","c","o","l">>, <<"c","o","m","m","u","n","i","c","a","t","i","o","n">>, <<"d","i","s","t","r","i","b","u","t","e","d">>,
        <<"p","e","e","r">>, <<"c","l","i","e","n","t">>, <<"s","e","r","v","e","r">>, <<"i","n","f","r","a","s","t","r","u","c","t","u","r","e">>, <<"i","n","t","e","r","n","e","t">>, <<"w","e","b">>>>],
    [topic |-> "privacy", keywords |-> <<
        <<"p","r","i","v","a","c","y">>, <<"p","r","i","v","a","t","e">>, <<"c","o","n","f","i","d","e","n","t","i","a","l">>, <<"a","n","o","n","y","m","o","u","s">>, <<"a","n","o","n","y","m","i","t","y">>, <<"p","e","r","s","o","n","a","l">>,
        <<"d","a","t","a">>, <<"i","n","f","o","r","m","a","t","i","o","n">>, <<"d","i","s","c","l","o","s","u","r","e">>, <<"s","h","a","r","i","n","g">>, <<"p","r","o","t","e","c","t","i","o","n">>, <<"g","d","p","r">>,
        <<"c","o","m","p","l","i","a","n","c","e">>, <<"c","o","n","s","e","n","t">>, <<"t","r","a","c","k","i","n","g">>, <<"s","u","r","v","e","i","l","l","a","n","c","e">>, <<"i","d","e","n","t","i","t","y">>>>]>>

\* keyword found at position i of fullText, word boundaries not looked at
foundAt(fullText, keyword, i) == SubSeq(fullText, i, i + Len(keyword) - 1) = keyword

\* Occurrences of keyword in fullText wherever they stand, inside longer
\* words too
matchCountAnywhere(fullText, keyword) ==
    Cardinality({i \in 1..(Len(fullText) - Len(keyword) + 1) : foundAt(fullText, keyword, i)})

\* fullText.match(/\bkeyword\b/gi).length (0 for null) on the lower-cased
\* text: a keyword is made of word characters, so \b holds before it where
\* the text starts or a non-word character stands, and likewise after it
matchCount(fullText, keyword) ==
    Cardinality({i \in 1..(Len(fullText) - Len(keyword) + 1) :
        /\ foundAt(fullText, keyword, i)
        /\ i = 1 \/ ~IsWordChar(fullText[i - 1])
        /\ i + Len(keyword) > Len(fullText) \/ ~IsWordChar(fullText[i + Len(keyword)])})

RECURSIVE sumOver(_, _)
sumOver(counts, i) == IF i > Len(counts) THEN 0 ELSE counts[i] + sumOver(counts, i + 1)

classifyPaperTopics(paper) ==
    LET fullText == toLowerCase(paper.title \o << " " >> \o paper.abstract \o << " " >>
                                \o join(paper.tags, << " " >>))
        score(keywords) == sumOver([k \in 1..Len(keywords) |-> matchCount(fullText, keywords[k])], 1)
    IN  [t \in 1..Len(TOPIC_KEYWORDS) |->
            [topic |-> TOPIC_KEYWORDS[t].topic,
             score |-> [num |-> 100 * score(TOPIC_KEYWORDS[t].keywords),
                        den |-> IF Len(fullText) > 100 THEN Len(fullText) ELSE 100]]]

formatTopicLabel(topic) ==
    CASE topic = "security" -> "Security"
      [] topic = "economics" -> "Economics"
      [] topic = "risk" -> "Risk Management"
      [] topic = "aiml" -> "AI/ML"
      [] topic = "gameTheory" -> "Game Theory"
      [] topic = "network" -> "Network"
      [] topic = "privacy" -> "Privacy"
      [] OTHER -> topic

\* Index of topic among the entries of an insertion-ordered object, 0 if absent
entryIndex(entries, topic) ==
    IF \E i \in 1..Len(entries) : entries[i].topic = topic
    THEN CHOOSE i \in 1..Len(entries) : entries[i].topic = topic
    ELSE 0

findTopicConnections(topic, topicPapers) ==
    LET current == topicPapers[entryIndex(topicPapers, topic)].papers
        currentPapers == {current[i].key : i \in 1..Len(current)}
        connected(other) ==
            LET overlap == Len(SelectSeq(other.papers, LAMBDA p : p.key \in currentPapers))
                smaller == IF Cardinality(currentPapers) < Len(other.papers)
                           THEN Cardinality(currentPapers) ELSE Len(other.papers)
            IN  other.topic # topic /\ 10 * overlap > smaller
        others == SelectSeq(topicPapers, connected)
    IN  [i \in 1..Len(others) |-> others[i].topic]

\* The inner forEach of generateTopicClusters: the scores of one paper
\* added to the accumulators.  The paper is pushed to the entry of every
\* topic it scores above 0.1 for, and the topics that have no entry yet get
\* one, in the order of paperTopics
assignTopics(acc, paper, paperTopics) ==
    LET above(t) == 10 * paperTopics[t].score.num > paperTopics[t].score.den
        scored(topic) == {t \in 1..Len(paperTopics) : paperTopics[t].topic = topic /\ above(t)}
        scoreFor(topic) == paperTopics[CHOOSE t \in scored(topic) : TRUE].score
        fresh == SelectSeq([t \in 1..Len(paperTopics) |->
                               IF above(t) /\ entryIndex(acc.topicPapers, paperTopics[t].topic) = 0
                               THEN <<paperTopics[t]>> ELSE <<>>],
                           nonEmpty)
    IN  [topicPapers |->
             [e \in 1..Len(acc.topicPapers) |->
                 IF scored(acc.topicPapers[e].topic) # {}
                 THEN [acc.topicPapers[e] EXCEPT !.papers = Append(@, paper)]
                 ELSE acc.topicPapers[e]]
             \o [f \in 1..Len(fresh) |-> [topic |-> fresh[f][1].topic, papers |-> <<paper>>]],
         topicScores |->
             [e \in 1..Len(acc.topicScores) |->
                 IF scored(acc.topicScores[e].topic) # {}
                 THEN [acc.topicScores[e] EXCEPT
                          !.terms = Append(@, scoreFor(acc.topicScores[e].topic))]
                 ELSE acc.topicScores[e]]
             \o [f \in 1..Len(fresh) |-> [topic |-> fresh[f][1].topic, terms |-> <<fresh[f][1].score>>]]]

\* The outer forEach of generateTopicClusters
RECURSIVE classifyAll(_, _, _)
classifyAll(acc, list, i) ==
    IF i > Len(list) THEN acc
    ELSE classifyAll(assignTopics(acc, list[i], classifyPaperTopics(list[i])), list, i + 1)

\* clusters.sort((a, b) => b.coverage - a.coverage): stable, descending
RECURSIVE sortByCoverage(_, _, _)
sortByCoverage(clusters, i, sorted) ==
    IF i > Len(clusters) THEN sorted
    ELSE LET c == clusters[i]
             ahead == Cardinality({k \in 1..Len(sorted) :
                          sorted[k].coverage.num * c.coverage.den
                              >= c.coverage.num * sorted[k].coverage.den})
         IN  sortByCoverage(clusters, i + 1,
                 SubSeq(sorted, 1, ahead) \o <<c>> \o SubSeq(sorted, ahead + 1, Len(sorted)))

\* Mutant of topicAccumulators: the accumulators are the ones the previous
\* call left behind
topicAccumulatorsKept == output.left

\* const topicPapers = {}; const topicScores = {}; at the entry of every call
topicAccumulators == [topicPapers |-> <<>>, topicScores |-> <<>>]

\* generateTopicClusters, returning the clusters together with the
\* accumulators as they are when the call returns
generateTopicClustersRun(list) ==
    LET acc == classifyAll(topicAccumulators, list, 1)
        clusters == [i \in 1..Len(acc.topicPapers) |->
            LET entry == acc.topicPapers[i]
            IN  [id |-> entry.topic,
                 label |-> formatTopicLabel(entry.topic),
                 size |-> Len(entry.papers),
                 papers |-> entry.papers,
                 connections |-> findTopicConnections(entry.topic, acc.topicPapers),
                 coverage |-> percentOf(Len(entry.papers), Len(list))]]
    IN  [clusters |-> sortByCoverage(clusters, 1, <<>>), left |-> acc]

generateTopicClusters(list) == generateTopicClustersRun(list).clusters

-----------------------------------------------------------------------------
(* Repeated pipeline runs (parse, then topic clustering) over two CSV texts *)

MaxRuns == 3

TopicHeaders == <<<<"T","i","t","l","e">>, <<"A","b","s","t","r","a","c","t"," ","N","o","t","e">>, <<"M","a","n","u","a","l"," ","T","a","g","s">>>>

TopicSheets ==
    {[headers |-> TopicHeaders, rows |-> r] : r \in {
        <<>>,
        <<<<<<"C","y","b","e","r"," ","r","i","s","k">>, <<"E","c","o","n","o","m","i","c"," ","m","o","d","e","l">>, <<"r","i","s","k",";"," ","c","o","s","t">>>>>>,
        <<<<<<"C","y","b","e","r"," ","r","i","s","k">>, <<"E","c","o","n","o","m","i","c"," ","m","o","d","e","l">>, <<"r","i","s","k",";"," ","c","o","s","t">>>>,
          <<<<"N","e","t","w","o","r","k"," ","g","a","m","e">>, <<>>, <<"s","e","c","u","r","i","t","y">>>>>>,
        <<<<<<"N","e","t","w","o","r","k"," ","g","a","m","e">>, <<>>, <<"s","e","c","u","r","i","t","y">>>>,
          <<<<"P","r","i","v","a","t","e"," ","d","a","t","a">>, <<"W","i","t","h"," ","c","o","n","s","e","n","t">>, <<"p","r","i","v","a","c","y",","," ","a","i">>>>>>}}

InitTopics ==
    /\ pc = "idle"
    /\ input \in {[datasets |-> <<toCSV(a), toCSV(b)>>] : a \in TopicSheets, b \in TopicSheets}
    /\ papers = <<>>
    /\ output = [history |-> <<>>, clusters |-> <<>>,
                 left |-> [topicPapers |-> <<>>, topicScores |-> <<>>],
                 first |-> <<Null, Null>>]

\* One run of the pipeline on dataset d: parseCSV, then generateTopicClusters
RunTopicPipeline(d) ==
    /\ Len(output.history) < MaxRuns
    /\ LET parsed == parseCSV(input.datasets[d])
           run == generateTopicClustersRun(parsed)
       IN  /\ papers' = parsed
           /\ output' = [history |-> Append(output.history, d),
                         clusters |-> run.clusters,
                         left |-> run.left,
                         first |-> IF output.first[d] = Null
                                   THEN [output.first EXCEPT ![d] = <<run.clusters>>]
                                   ELSE output.first]
    /\ pc' = "clustered"
    /\ UNCHANGED input

NextTopics == \E d \in 1..2 : RunTopicPipeline(d)

SpecTopics == InitTopics /\ [][NextTopics]_vars

-----------------------------------------------------------------------------
(* Author analyzer: utils/authorAnalysis.  A Map is a sequence of           *)
(* [key, value] entries in insertion order; a Set that is iterated is a     *)
(* sequence without repetitions.  A profile's papers are the positions of   *)
(* the papers in the dataset.  Ratios are exact fractions num / den.        *)

\* map.set(key, value)
mapSet(map, key, value) ==
    IF \E i \in 1..Len(map) : map[i].key = key
    THEN [i \in 1..Len(map) |-> IF map[i].key = key THEN [key |-> key, value |-> value] ELSE map[i]]
    ELSE Append(map, [key |-> key, value |-> value])

\* map.get(key) || default
mapGet(map, key, default) ==
    IF \E i \in 1..Len(map) : map[i].key = key
    THEN map[CHOOSE i \in 1..Len(map) : map[i].key = key].value
    ELSE default

\* The elements of seq in the order of their first occurrence (new Set(seq))
RECURSIVE distinct(_)
distinct(seq) ==
    IF seq = <<>> THEN <<>>
    ELSE LET front == distinct(SubSeq(seq, 1, Len(seq) - 1))
             last == seq[Len(seq)]
         IN  IF \E i \in 1..Len(front) : front[i] = last THEN front ELSE Append(front, last)

\* seq.sort((a, b) => rank(b) - rank(a)), rank[i] being the rank of seq[i]:
\* descending and stable
sortDescBy(seq, rank) ==
    LET place(i) == 1 + Cardinality({j \in 1..Len(seq) :
                            rank[j] > rank[i] \/ (rank[j] = rank[i] /\ j < i)})
    IN  [p \in 1..Len(seq) |-> seq[CHOOSE i \in 1..Len(seq) : place(i) = p]]

\* The characters of the model in the order of their code units
codeUnitOrder ==
    <<"\t", "\n", "\r", " ", "\"", "&", "'", ",", "-", ".">> \o DigitChars \o <<":", ";">>
        \o UpperChars \o <<"_">> \o LowerChars \o <<"|">>

\* a < b for strings (the order of Array.prototype.sort without comparator)
lessThan(a, b) ==
    LET code(c) == CHOOSE i \in 1..Len(codeUnitOrder) : codeUnitOrder[i] = c
        shorter == IF Len(a) < Len(b) THEN Len(a) ELSE Len(b)
        differ == {i \in 1..shorter : a[i] # b[i]}
    IN  IF differ = {} THEN Len(a) < Len(b)
        ELSE LET d == CHOOSE i \in differ : \A j \in differ : i <= j
             IN  code(a[d]) < code(b[d])

cleanAuthorName(name) ==
    toLowerCase(collapseSpaces(stripSuffix(stripHonorific(trim(name)))))

areAuthorNamesSimilar(name1, name2) ==
    IF name1 = name2 THEN TRUE
    ELSE LET parts1 == splitChar(name1, " ")
             parts2 == splitChar(name2, " ")
             matched(i) ==
                 \/ parts1[i] = parts2[i]
                 \/ Len(parts1[i]) = 1 /\ startsWith(parts2[i], parts1[i])
                 \/ Len(parts2[i]) = 1 /\ startsWith(parts1[i], parts2[i])
         IN  IF Len(parts1) = Len(parts2) THEN \A i \in 1..Len(parts1) : matched(i)
             ELSE IF Len(parts1) = 2 /\ Len(parts2) = 2
             THEN parts1[1] = parts2[2] /\ parts1[2] = parts2[1]
             ELSE FALSE

\* The Map from the clean name of a group's first author to the group's variants
detectDuplicateAuthors(authors) ==
    LET RECURSIVE similarTo(_, _, _, _)
        similarTo(author, j, processed, similar) ==
            IF j > Len(authors) THEN [processed |-> processed, similar |-> similar]
            ELSE IF author = authors[j] \/ authors[j] \in processed
            THEN similarTo(author, j + 1, processed, similar)
            ELSE IF areAuthorNamesSimilar(cleanAuthorName(author), cleanAuthorName(authors[j]))
            THEN similarTo(author, j + 1, processed \cup {authors[j]}, Append(similar, authors[j]))
            ELSE similarTo(author, j + 1, processed, similar)
        RECURSIVE each(_, _, _)
        each(i, processed, duplicates) ==
            IF i > Len(authors) THEN duplicates
            ELSE IF authors[i] \in processed THEN each(i + 1, processed, duplicates)
            ELSE LET found == similarTo(authors[i], 1, processed, <<authors[i]>>)
                 IN  each(i + 1, found.processed \cup {authors[i]},
                          IF Len(found.similar) > 1
                          THEN mapSet(duplicates, cleanAuthorName(authors[i]), found.similar)
                          ELSE duplicates)
    IN  each(1, {}, <<>>)

\* The topic names of the three largest counts of a Map from topic to count
topThree(topicCounts) ==
    LET sorted == sortDescBy(topicCounts, [i \in 1..Len(topicCounts) |-> topicCounts[i].value])
    IN  [i \in 1..(IF Len(sorted) < 3 THEN Len(sorted) ELSE 3) |-> sorted[i].key]

extractAuthorTopics(texts) ==
    LET topics == <<
            [name |-> "Security", keywords |-> <<<<"s","e","c","u","r","i","t","y">>, <<"c","y","b","e","r">>, <<"a","t","t","a","c","k">>, <<"d","e","f","e","n","s","e">>>>],
            [name |-> "Economics", keywords |-> <<<<"e","c","o","n","o","m","i","c">>, <<"c","o","s","t">>, <<"m","a","r","k","e","t">>, <<"i","n","c","e","n","t","i","v","e">>>>],
            [name |-> "Game Theory", keywords |-> <<<<"g","a","m","e">>, <<"s","t","r","a","t","e","g","y">>, <<"e","q","u","i","l","i","b","r","i","u","m">>, <<"p","l","a","y","e","r">>>>],
            [name |-> "Risk", keywords |-> <<<<"r","i","s","k">>, <<"u","n","c","e","r","t","a","i","n","t","y">>, <<"p","r","o","b","a","b","i","l","i","t","y">>>>],
            [name |-> "AI/ML", keywords |-> <<<<"a","i">>, <<"m","a","c","h","i","n","e">>, <<"l","e","a","r","n","i","n","g">>, <<"n","e","u","r","a","l">>>>],
            [name |-> "Network", keywords |-> <<<<"n","e","t","w","o","r","k">>, <<"d","i","s","t","r","i","b","u","t","e","d">>, <<"p","r","o","t","o","c","o","l">>>>],
            [name |-> "Privacy", keywords |-> <<<<"p","r","i","v","a","c","y">>, <<"a","n","o","n","y","m","o","u","s">>, <<"c","o","n","f","i","d","e","n","t","i","a","l">>>>]>>
        RECURSIVE count(_, _, _)
        count(p, t, topicCounts) ==
            IF p > Len(texts) THEN topicCounts
            ELSE IF t > Len(topics) THEN count(p + 1, 1, topicCounts)
            ELSE LET matches == Len(SelectSeq(topics[t].keywords, LAMBDA k : includes(texts[p], k)))
                 IN  count(p, t + 1,
                           IF matches > 0
                           THEN mapSet(topicCounts, topics[t].name,
                                       mapGet(topicCounts, topics[t].name, 0) + matches)
                           ELSE topicCounts)
    IN  topThree(count(1, 1, <<>>))

\* The influence score in tenths: Math.round(influence * 10), the natural
\* logarithm taken from a table in millionths
calculateAuthorInfluence(profile) ==
    LET n == profile.paperCount + 1
        logMicro == CASE n = 1 -> 0 [] n = 2 -> 693147 [] n = 3 -> 1098612 [] n = 4 -> 1386294
                      [] n = 5 -> 1609438 [] n = 6 -> 1791759 [] n = 7 -> 1945910
                      [] n = 8 -> 2079442 [] n = 9 -> 2197225 [] n = 10 -> 2302585
                      [] n = 11 -> 2397895 [] n = 12 -> 2484907 [] n = 13 -> 2564949
        avg == profile.averagePapersPerYear
        span == IF profile.yearSpan < 10 THEN profile.yearSpan ELSE 10
        whole == 20 * span + 30 * Len(profile.primaryTopics)
        scaled == logMicro * avg.den + 500000 * avg.num + whole * 10000 * avg.den
    IN  (2 * scaled + 10000 * avg.den) \div (20000 * avg.den)

\* The name a byline entry is filed under: the longest variant of the first
\* duplicate group that lists it, or the entry itself
canonicalAuthorName(duplicates, authorName) ==
    LET groups == {g \in 1..Len(duplicates) :
                      \E v \in 1..Len(duplicates[g].value) : duplicates[g].value[v] = authorName}
        variants == duplicates[CHOOSE g \in groups : \A h \in groups : h <= g].value
    IN  IF groups = {} THEN authorName
        ELSE variants[CHOOSE i \in 1..Len(variants) :
                 /\ \A j \in 1..Len(variants) : Len(variants[j]) <= Len(variants[i])
                 /\ \A j \in 1..(i - 1) : Len(variants[j]) < Len(variants[i])]

\* authorMap after paper number p is credited to the profile of canonicalName
creditPaper(authorMap, canonicalName, p) ==
    LET cleanName == cleanAuthorName(canonicalName)
        fresh == [id |-> [i \in 1..Len(cleanName) |->
                             IF IsSpace(cleanName[i]) THEN "_" ELSE cleanName[i]],
                  name |-> canonicalName, cleanName |-> cleanName,
                  paperCount |-> 0, papers |-> <<>>]
        profile == mapGet(authorMap, cleanName, fresh)
    IN  mapSet(authorMap, cleanName,
               [profile EXCEPT !.paperCount = profile.paperCount + 1,
                               !.papers = Append(profile.papers, p)])

\* The additional metrics of one profile, its papers given by their numbers
\* in list
profileMetrics(list, profile) ==
    LET years == {list[profile.papers[i]].publicationYear[1] :
                     i \in {k \in 1..Len(profile.papers) :
                               list[profile.papers[k]].publicationYear # Null}}
        first == CHOOSE y \in years : \A z \in years : y <= z
        last == CHOOSE y \in years : \A z \in years : z <= y
        yearSpan == IF years = {} THEN 0 ELSE last - first + 1
        base == [id |-> profile.id, name |-> profile.name, cleanName |-> profile.cleanName,
                 paperCount |-> profile.paperCount, papers |-> profile.papers,
                 collaborators |-> <<>>,
                 primaryTopics |-> extractAuthorTopics(
                     [i \in 1..Len(profile.papers) |->
                         toLowerCase(list[profile.papers[i]].title \o << " " >>
                                     \o list[profile.papers[i]].abstract \o << " " >>
                                     \o join(list[profile.papers[i]].tags, << " " >>))]),
                 firstPublication |-> IF years = {} THEN Null ELSE <<first>>,
                 lastPublication |-> IF years = {} THEN Null ELSE <<last>>,
                 yearSpan |-> yearSpan,
                 averagePapersPerYear |->
                     IF years = {} THEN [num |-> 0, den |-> 1]
                     ELSE [num |-> profile.paperCount,
                           den |-> IF yearSpan > 1 THEN yearSpan ELSE 1]]
    IN  base @@ [influence |-> calculateAuthorInfluence(base)]

buildAuthorProfiles(list) ==
    LET RECURSIVE flatten(_)
        flatten(seqs) == IF seqs = <<>> THEN <<>> ELSE Head(seqs) \o flatten(Tail(seqs))
        duplicates == detectDuplicateAuthors(
                          distinct(flatten([p \in 1..Len(list) |-> list[p].authors])))
        RECURSIVE collect(_, _, _)
        collect(p, a, authorMap) ==
            IF p > Len(list) THEN authorMap
            ELSE IF a > Len(list[p].authors) THEN collect(p + 1, 1, authorMap)
            ELSE collect(p, a + 1,
                         creditPaper(authorMap,
                                     canonicalAuthorName(duplicates, list[p].authors[a]), p))
        authorMap == collect(1, 1, <<>>)
        profiles == [i \in 1..Len(authorMap) |-> profileMetrics(list, authorMap[i].value)]
    IN  sortDescBy(profiles, [i \in 1..Len(profiles) |-> profiles[i].paperCount])

buildCollaborationNetwork(list) ==
    LET RECURSIVE pairs(_, _, _, _)
        pairs(p, i, j, collaborations) ==
            IF p > Len(list) THEN collaborations
            ELSE LET authors == [a \in 1..Len(list[p].authors) |-> cleanAuthorName(list[p].authors[a])]
                 IN  IF i > Len(authors) THEN pairs(p + 1, 1, 2, collaborations)
                     ELSE IF j > Len(authors) THEN pairs(p, i + 1, i + 2, collaborations)
                     ELSE LET sorted == IF lessThan(authors[j], authors[i])
                                        THEN <<authors[j], authors[i]>>
                                        ELSE <<authors[i], authors[j]>>
                              edgeKey == join(sorted, <<"|">>)
                          IN  pairs(p, i, j + 1,
                                    mapSet(collaborations, edgeKey,
                                           mapGet(collaborations, edgeKey, 0) + 1))
        edgesOf(collaborations) ==
            [e \in 1..Len(collaborations) |->
                [source |-> splitChar(collaborations[e].key, "|")[1],
                 target |-> splitChar(collaborations[e].key, "|")[2],
                 weight |-> collaborations[e].value]]
        byWeight(actual) == sortDescBy(actual, [e \in 1..Len(actual) |-> actual[e].weight])
    IN  byWeight(SelectSeq(edgesOf(pairs(1, 1, 2, <<>>)), LAMBDA edge : edge.weight > 0))

\* The component reached from startAuthor, with the processed set it leaves
findConnectedComponent(startAuthor, adjacencyList, processed) ==
    LET RECURSIVE visit(_, _, _)
        visit(queue, done, component) ==
            IF queue = <<>> THEN [component |-> component, processed |-> done]
            ELSE LET current == Head(queue)
                     neighbors == mapGet(adjacencyList, current, <<>>)
                 IN  IF current \in done THEN visit(Tail(queue), done, component)
                     ELSE visit(Tail(queue)
                                    \o SelectSeq(neighbors, LAMBDA n : n \notin done \cup {current}),
                                done \cup {current}, Append(component, current))
    IN  visit(<<startAuthor>>, processed, <<>>)

calculateCommunityCollaborationStrength(members, collaborations) ==
    LET memberSet == {members[i] : i \in 1..Len(members)}
        internalCollaborations ==
            SelectSeq(collaborations, LAMBDA edge : edge.source \in memberSet /\ edge.target \in memberSet)
        twicePossibleEdges == Len(members) * (Len(members) - 1)
    IN  IF twicePossibleEdges > 0
        THEN [num |-> 2 * Len(internalCollaborations), den |-> twicePossibleEdges]
        ELSE [num |-> 0, den |-> 1]

detectAuthorCommunities(authors, collaborations) ==
    LET RECURSIVE link(_, _)
        link(e, adjacencyList) ==
            IF e > Len(collaborations) THEN adjacencyList
            ELSE LET source == collaborations[e].source
                     target == collaborations[e].target
                     withSource == mapSet(adjacencyList, source, mapGet(adjacencyList, source, <<>>))
                     withBoth == mapSet(withSource, target, mapGet(withSource, target, <<>>))
                     toTarget == mapSet(withBoth, source,
                                        distinct(Append(mapGet(withBoth, source, <<>>), target)))
                 IN  link(e + 1, mapSet(toTarget, target,
                                        distinct(Append(mapGet(toTarget, target, <<>>), source))))
        adjacencyList == link(1, <<>>)
        communityOf(communityAuthors, number) ==
            LET communityProfiles ==
                    SelectSeq([m \in 1..Len(communityAuthors) |->
                                  SelectSeq(authors, LAMBDA a : a.cleanName = communityAuthors[m])],
                              LAMBDA found : found # <<>>)
                RECURSIVE tally(_, _, _)
                tally(m, t, topicCounts) ==
                    IF m > Len(communityProfiles) THEN topicCounts
                    ELSE IF t > Len(communityProfiles[m][1].primaryTopics) THEN tally(m + 1, 1, topicCounts)
                    ELSE LET topic == communityProfiles[m][1].primaryTopics[t]
                         IN  tally(m, t + 1, mapSet(topicCounts, topic, mapGet(topicCounts, topic, 0) + 1))
                byConnections == sortDescBy(communityAuthors,
                    [m \in 1..Len(communityAuthors) |->
                        Len(mapGet(adjacencyList, communityAuthors[m], <<>>))])
                central == IF (3 * Len(communityAuthors)) \div 10 > 1
                           THEN (3 * Len(communityAuthors)) \div 10 ELSE 1
            IN  [id |-> "community_" \o ToString(number),
                 name |-> "Research Group " \o ToString(number),
                 members |-> communityAuthors,
                 centralAuthors |-> SubSeq(byConnections, 1, central),
                 primaryTopics |-> topThree(tally(1, 1, <<>>)),
                 paperCount |-> sumOver([m \in 1..Len(communityProfiles) |->
                                            communityProfiles[m][1].paperCount], 1),
                 collaborationStrength |->
                     calculateCommunityCollaborationStrength(communityAuthors, collaborations)]
        RECURSIVE each(_, _, _)
        each(a, processed, communities) ==
            IF a > Len(authors) THEN communities
            ELSE IF authors[a].cleanName \in processed THEN each(a + 1, processed, communities)
            ELSE LET found == findConnectedComponent(authors[a].cleanName, adjacencyList, processed)
                 IN  each(a + 1, found.processed,
                          IF Len(found.component) >= 3
                          THEN Append(communities, communityOf(found.component, Len(communities) + 1))
                          ELSE communities)
        communities == each(1, {}, <<>>)
    IN  sortDescBy(communities, [c \in 1..Len(communities) |-> communities[c].paperCount])

analyzeAuthorNetwork(list) ==
    LET firstTen(seq) == SubSeq(seq, 1, IF Len(seq) < 10 THEN Len(seq) ELSE 10)
        statistics(authors, byInfluence, totalCollaborations, twiceMaxPossibleEdges) ==
            [totalAuthors |-> Len(authors),
             totalCollaborations |-> totalCollaborations,
             averageCollaboratorsPerAuthorTenths |->
                 IF Len(authors) > 0
                 THEN (40 * totalCollaborations + Len(authors)) \div (2 * Len(authors))
                 ELSE 0,
             mostProlificAuthors |->
                 [a \in 1..Len(firstTen(authors)) |->
                     [name |-> authors[a].name, paperCount |-> authors[a].paperCount]],
             mostInfluentialAuthors |->
                 [a \in 1..Len(firstTen(byInfluence)) |->
                     [name |-> byInfluence[a].name, influence |-> byInfluence[a].influence]],
             collaborationDensityThousandths |->
                 IF twiceMaxPossibleEdges > 0
                 THEN (4000 * totalCollaborations + twiceMaxPossibleEdges)
                          \div (2 * twiceMaxPossibleEdges)
                 ELSE 0]
        sorted(authors) == sortDescBy(authors, [a \in 1..Len(authors) |-> authors[a].influence])
        analysis(authors, collaborations) ==
            [authors |-> sorted(authors),
             collaborations |-> collaborations,
             communities |-> detectAuthorCommunities(authors, collaborations),
             statistics |-> statistics(authors, sorted(authors), Len(collaborations),
                                       Len(authors) * (Len(authors) - 1))]
    IN  analysis(buildAuthorProfiles(list), buildCollaborationNetwork(list))

-----------------------------------------------------------------------------
(* Runs of the author analysis on parsed CSV texts of up to MaxBylines rows *)

MaxBylines == 2

AuthorHeaders == <<<<"T","i","t","l","e">>, <<"A","u","t","h","o","r">>, <<"P","u","b","l","i","c","a","t","i","o","n"," ","Y","e","a","r">>>>

AuthorCells ==
    {<<"J","."," ","S","m","i","t","h">>, <<"J","o","h","n"," ","S","m","i","t","h">>, <<"J"," ","S","m","i","t","h",";"," ","A","n","n"," ","L","e","e",";"," ","B","o","b"," ","R","o","e">>, <<"J","o","h","n"," ","S","m","i","t","h",";"," ","A","n","n"," ","L","e","e",";"," ","B","o","b"," ","R","o","e">>,
     <<"S","m","i","t","h",","," ","J","o","h","n",";"," ","S","m","i","t","h",","," ","J","a","n","e">>, <<"A","n","n"," ","L","e","e",";"," ","B","o","b"," ","R","o","e">>, <<"A","n","n"," ","L","e","e"," ","&"," ","C","y"," ","P","o","e">>,
     <<"J"," ","S","m","i","t","h",";"," ","A"," ","L","e","e",";"," ","B"," ","R","o","e">>,
     <<"J","o","h","n"," ","S","m","i","t","h",";"," ","J","a","n","e"," ","S","m","i","t","h">>,
     <<"A","n","n"," ","L","e","e",";"," ","A","n","n"," ","L","e","e">>, <<"J","."," ","S","m","i","t","h",";"," ","J"," ","S","m","i","t","h">>, <<>>}

AuthorSheet(cells) ==
    [headers |-> AuthorHeaders,
     rows |-> [i \in 1..Len(cells) |->
                  <<<<"C","y","b","e","r"," ","r","i","s","k"," ">> \o <<DigitChars[i + 1]>>, cells[i], <<"2","0","2">> \o <<DigitChars[i + 1]>>>>]]

InitAuthors ==
    /\ pc = "start"
    /\ input \in {[csvContent |-> toCSV(AuthorSheet(cells))] : cells \in SeqsUpTo(AuthorCells, MaxBylines)}
    /\ papers = <<>>
    /\ output = Null

RunAnalyzeAuthorNetwork ==
    /\ pc = "start"
    /\ papers' = parseCSV(input.csvContent)
    /\ output' = analyzeAuthorNetwork(papers')
    /\ pc' = "done"
    /\ UNCHANGED input

NextAuthors == RunAnalyzeAuthorNetwork

SpecAuthors == InitAuthors /\ [][NextAuthors]_vars

\* The author strings of the bylines of the parsed papers
corpusAuthors == UNION {{papers[p].authors[a] : a \in 1..Len(papers[p].authors)} : p \in 1..Len(papers)}

\* Token t is token u or an initial of it: its first letter, with or without
\* the period of an abbreviation
isInitialOf(t, u) ==
    /\ u # <<>>
    /\ t = <<u[1]>> \/ t = <<u[1], ".">>

\* Same number of tokens, every pair equal or one an initial of the other
sameIdentity(name1, name2) ==
    LET parts1 == splitChar(cleanAuthorName(name1), " ")
        parts2 == splitChar(cleanAuthorName(name2), " ")
    IN  /\ Len(parts1) = Len(parts2)
        /\ \A i \in 1..Len(parts1) :
               \/ parts1[i] = parts2[i]
               \/ isInitialOf(parts1[i], parts2[i])
               \/ isInitialOf(parts2[i], parts1[i])

\* C6: author strings whose tokens pairwise are equal or initial and full
\* form (such as "J. Smith" and "John Smith") are judged similar by
\* areAuthorNamesSimilar, and a corpus whose author strings all are the
\* same identity in this sense has a single author profile.
C6_InitialFormsAreOneIdentity ==
    pc = "done" =>
        /\ \A a, b \in corpusAuthors :
               sameIdentity(a, b) => areAuthorNamesSimilar(cleanAuthorName(a), cleanAuthorName(b))
        /\ (corpusAuthors # {} /\ \A a, b \in corpusAuthors : sameIdentity(a, b))
               => Len(output.authors) = 1

\* C7: when the corpus has exactly three authors (profiles) and each two of
\* them share a paper, there is exactly one community, its members are
\* those three authors, and its collaboration strength is 1.
C7_TriangleIsOneCommunity ==
    pc = "done" =>
        LET authors == output.authors
            shared(a, b) == \E i \in 1..Len(authors[a].papers), j \in 1..Len(authors[b].papers) :
                                authors[a].papers[i] = authors[b].papers[j]
        IN  (Len(authors) = 3 /\ \A a, b \in 1..3 : a # b => shared(a, b)) =>
                /\ Len(output.communities) = 1
                /\ Len(output.communities[1].members) = 3
                /\ {output.communities[1].members[m] : m \in 1..3}
                       = {authors[a].cleanName : a \in 1..3}
                /\ output.communities[1].collaborationStrength.num
                       = output.communities[1].collaborationStrength.den

\* C10: the collaboration network has exactly one edge for each unordered
\* pair of distinct normalized author names that share a paper, no other
\* edge, and the weight of an edge is the number of papers on which both
\* names appear.
C10_OneEdgePerCoauthorPair ==
    pc = "done" =>
        LET names(p) == {cleanAuthorName(papers[p].authors[a]) : a \in 1..Len(papers[p].authors)}
            pairs == UNION {{pair \in SUBSET names(p) : Cardinality(pair) = 2} : p \in 1..Len(papers)}
            edges == output.collaborations
            ends(e) == {edges[e].source, edges[e].target}
        IN  /\ \A e \in 1..Len(edges) : ends(e) \in pairs
            /\ \A pair \in pairs :
                   /\ Cardinality({e \in 1..Len(edges) : ends(e) = pair}) = 1
                   /\ \A e \in 1..Len(edges) :
                          ends(e) = pair =>
                              edges[e].weight = Cardinality({p \in 1..Len(papers) : pair \subseteq names(p)})


\* The nodes connected to the nodes of S by the edges of the collaboration
\* network of the analysis
RECURSIVE connectedTo(_)
connectedTo(S) ==
    LET edges == output.collaborations
        T == S \cup {edges[e].target : e \in {k \in 1..Len(edges) : edges[k].source \in S}}
               \cup {edges[e].source : e \in {k \in 1..Len(edges) : edges[k].target \in S}}
    IN  IF T = S THEN S ELSE connectedTo(T)

\* The member set of community number c of the analysis
membersOf(c) == {output.communities[c].members[m] : m \in 1..Len(output.communities[c].members)}

\* C11: the communities are exactly the connected components of the
\* collaboration graph that have at least 3 members: each such component is
\* the member set of exactly one community, each community is such a
\* component, communities are pairwise disjoint and none has fewer than 3
\* members.
C11_CommunitiesAreComponents ==
    pc = "done" =>
        LET edges == output.collaborations
            nodes == {edges[e].source : e \in 1..Len(edges)} \cup {edges[e].target : e \in 1..Len(edges)}
            large == {connectedTo({n}) : n \in {m \in nodes : Cardinality(connectedTo({m})) >= 3}}
            communities == 1..Len(output.communities)
        IN  /\ \A component \in large :
                   Cardinality({c \in communities : membersOf(c) = component}) = 1
            /\ \A c \in communities :
                   /\ membersOf(c) \in large
                   /\ Len(output.communities[c].members) = Cardinality(membersOf(c))
                   /\ Cardinality(membersOf(c)) >= 3
            /\ \A c, d \in communities : c # d => membersOf(c) \cap membersOf(d) = {}

-----------------------------------------------------------------------------
(* Gap analyzer: the temporal part of ResearchGapAnalyzer                   *)
(* (utils/researchGapAnalysis).  Ratios are exact fractions num / den.      *)

findTemporalGaps(list) ==
    LET dated == SelectSeq(list, LAMBDA paper : paper.publicationYear # Null)
        yearSet == {dated[i].publicationYear[1] : i \in 1..Len(dated)}
        yearlyPapers(year) == Len(SelectSeq(dated, LAMBDA paper : paper.publicationYear[1] = year))
        years == [p \in 1..Cardinality(yearSet) |->
                     CHOOSE y \in yearSet : Cardinality({z \in yearSet : z < y}) = p - 1]
        windowSize == 3
        rangeAt(k) ==
            LET surroundingYears == SubSeq(years, k - windowSize, k - 1)
                                        \o SubSeq(years, k + 1, k + windowSize)
                total == sumOver([s \in 1..Len(surroundingYears) |->
                                     yearlyPapers(surroundingYears[s])], 1)
                expectedPapers == (2 * total + Len(surroundingYears)) \div (2 * Len(surroundingYears))
                currentPapers == yearlyPapers(years[k])
            IN  [startYear |-> years[k], endYear |-> years[k],
                 expectedPapers |-> expectedPapers, actualPapers |-> currentPapers,
                 gapSize |-> IF expectedPapers > currentPapers
                             THEN expectedPapers - currentPapers ELSE 0]
        ranges == [i \in 1..(Len(years) - 2 * windowSize) |-> rangeAt(i + windowSize)]
    IN  SelectSeq(ranges, LAMBDA range : range.gapSize > 5)

analyzeRecentTrend(list, currentYear) ==
    LET recentPapers == SelectSeq(list, LAMBDA paper :
                            paper.publicationYear # Null /\ paper.publicationYear[1] >= currentYear - 5)
        yearSet == {recentPapers[i].publicationYear[1] : i \in 1..Len(recentPapers)}
        yearlyCount(year) ==
            Len(SelectSeq(recentPapers, LAMBDA paper : paper.publicationYear[1] = year))
        years == [p \in 1..Cardinality(yearSet) |->
                     CHOOSE y \in yearSet : Cardinality({z \in yearSet : z < y}) = p - 1]
        midPoint == Len(years) \div 2
        firstSum == sumOver([i \in 1..midPoint |-> yearlyCount(years[i])], 1)
        secondSum == sumOver([i \in 1..(Len(years) - midPoint) |-> yearlyCount(years[midPoint + i])], 1)
    IN  IF Len(years) < 3 THEN [isDecline |-> FALSE, trendData |-> Null]
        ELSE [isDecline |-> 10 * secondSum * midPoint < 8 * firstSum * (Len(years) - midPoint),
              trendData |-> <<[firstHalfAvg |-> [num |-> firstSum, den |-> midPoint],
                               secondHalfAvg |-> [num |-> secondSum, den |-> Len(years) - midPoint],
                               declinePercentage |->
                                   [num |-> 100 * (firstSum * (Len(years) - midPoint) - secondSum * midPoint),
                                    den |-> firstSum * (Len(years) - midPoint)]]>>]

\* temporalGaps.filter(gap => gap.gapSize > 10)
significantGap(gap) == gap.gapSize > 10

analyzeTemporalGaps(list, currentYear) ==
    LET significantGaps == SelectSeq(findTemporalGaps(list), significantGap)
        recentTrend == analyzeRecentTrend(list, currentYear)
        span(gap) == ToString(gap.startYear) \o "-" \o ToString(gap.endYear)
    IN  [index \in 1..Len(significantGaps) |->
            LET gap == significantGaps[index]
            IN  [id |-> "temporal_" \o ToString(index - 1),
                 type |-> "temporal",
                 title |-> "Research Activity Gap (" \o span(gap) \o ")",
                 description |-> "Significant reduction in research activity during " \o span(gap)
                                     \o ", with " \o ToString(gap.gapSize)
                                     \o " fewer papers than expected.",
                 severity |-> IF gap.gapSize > 20 THEN "high" ELSE "medium",
                 evidence |-> [underRepresentedTopics |-> <<>>, citationGaps |-> <<>>,
                               temporalGaps |-> <<gap>>,
                               potentialImpact |-> [num |-> 1, den |-> 2],
                               supportingData |-> <<gap>>],
                 opportunityScore |-> [num |-> 50 * gap.gapSize, den |-> gap.expectedPapers]]]
        \o (IF recentTrend.isDecline
            THEN <<[id |-> "temporal_recent_decline",
                    type |-> "temporal",
                    title |-> "Recent Research Decline",
                    description |-> "Research activity has declined in recent years, potentially indicating field maturation or shift in focus.",
                    severity |-> "medium",
                    evidence |-> [underRepresentedTopics |-> <<>>, citationGaps |-> <<>>,
                                  temporalGaps |-> <<>>,
                                  potentialImpact |-> [num |-> 2, den |-> 5],
                                  supportingData |-> recentTrend.trendData],
                    opportunityScore |-> [num |-> 40, den |-> 1]]>>
            ELSE <<>>)

-----------------------------------------------------------------------------
(* Runs of the temporal gap analysis on corpora of MaxYears years with a    *)
(* steady number of papers per year, lowered in a window of one or three    *)
(* consecutive years                                                        *)

MaxYears == 12

MaxRate == 22

\* The papers of a corpus with counts[i] papers in year 2012 + i
RECURSIVE corpusOf(_, _)
corpusOf(counts, i) ==
    IF i > Len(counts) THEN <<>>
    ELSE [k \in 1..counts[i] |-> [title |-> <<"C","y","b","e","r"," ","r","i","s","k">>, publicationYear |-> <<2012 + i>>]]
             \o corpusOf(counts, i + 1)

InitGaps ==
    /\ pc = "start"
    /\ input \in {[currentYear |-> 2026, rate |-> c, window |-> w..(w + n - 1), lowered |-> d] :
                     c \in {6, 8, MaxRate}, n \in {1, 3}, w \in 1..(MaxYears - 2), d \in {0, 1}}
    /\ papers = corpusOf([i \in 1..MaxYears |->
                             IF i \in input.window THEN input.lowered ELSE input.rate], 1)
    /\ output = Null

RunAnalyzeTemporalGaps ==
    /\ pc = "start"
    /\ output' = analyzeTemporalGaps(papers, input.currentYear)
    /\ pc' = "done"
    /\ UNCHANGED <<input, papers>>

NextGaps == RunAnalyzeTemporalGaps

SpecGaps == InitGaps /\ [][NextGaps]_vars

\* Number of papers of the corpus published in year y
papersIn(y) == Cardinality({i \in 1..Len(papers) : papers[i].publicationYear = <<y>>})

\* C8: when every year of the corpus has the same number (more than 5) of
\* papers except three consecutive years, at least three years from either
\* end, that have none, the analysis returns temporal gaps that cover each
\* year of that window with gapSize > 5.
C8_EmptyWindowIsReported ==
    pc = "done" =>
        \A w \in 4..(MaxYears - 5) :
            LET window == {2012 + w, 2013 + w, 2014 + w}
                others == {2012 + i : i \in 1..MaxYears} \ window
            IN  (/\ \A y \in window : papersIn(y) = 0
                 /\ \E c \in 6..MaxRate : \A y \in others : papersIn(y) = c)
                => \A y \in window :
                       \E g \in 1..Len(output) :
                           /\ output[g].type = "temporal"
                           /\ \E r \in 1..Len(output[g].evidence.temporalGaps) :
                                  LET range == output[g].evidence.temporalGaps[r]
                                  IN  /\ range.startYear <= y
                                      /\ y <= range.endYear
                                      /\ range.gapSize > 5

-----------------------------------------------------------------------------
(* Spreadsheet parser (data/excelParser, part_004 lines 647-834) and the    *)
(* loaders of data/dataLoader.  A workbook is given by the rows that        *)
(* XLSX.utils.sheet_to_json(worksheet, {header: 1}) yields, every cell a    *)
(* string.  A promise's outcome is [status |-> "resolved", value |-> v] or  *)
(* [status |-> "rejected", message |-> m].                                  *)

\* The fieldMappings of createPaperFromExcelRow
fieldMappingsExcel(name) ==
    CASE name = <<"t","i","t","l","e">> -> <<<<"T","i","t","l","e">>, <<"P","a","p","e","r"," ","T","i","t","l","e">>, <<"A","r","t","i","c","l","e"," ","T","i","t","l","e">>>>
      [] name = <<"a","u","t","h","o","r">> -> <<<<"A","u","t","h","o","r">>, <<"A","u","t","h","o","r","s">>, <<"A","u","t","h","o","r","(","s",")">>>>
      [] name = <<"y","e","a","r">> -> <<<<"Y","e","a","r">>, <<"P","u","b","l","i","c","a","t","i","o","n"," ","Y","e","a","r">>, <<"P","u","b"," ","Y","e","a","r">>, <<"D","a","t","e">>>>
      [] name = <<"a","b","s","t","r","a","c","t">> -> <<<<"A","b","s","t","r","a","c","t">>, <<"A","b","s","t","r","a","c","t"," ","N","o","t","e">>, <<"S","u","m","m","a","r","y">>>>
      [] name = <<"d","o","i">> -> <<<<"D","O","I">>, <<"D","i","g","i","t","a","l"," ","O","b","j","e","c","t"," ","I","d","e","n","t","i","f","i","e","r">>>>
      [] name = <<"u","r","l">> -> <<<<"U","R","L">>, <<"L","i","n","k">>, <<"W","e","b"," ","L","i","n","k">>>>
      [] name = <<"t","y","p","e">> -> <<<<"T","y","p","e">>, <<"I","t","e","m"," ","T","y","p","e">>, <<"P","u","b","l","i","c","a","t","i","o","n"," ","T","y","p","e">>>>
      [] name = <<"v","e","n","u","e">> -> <<<<"V","e","n","u","e">>, <<"J","o","u","r","n","a","l">>, <<"C","o","n","f","e","r","e","n","c","e">>, <<"P","u","b","l","i","c","a","t","i","o","n">>, <<"S","o","u","r","c","e">>>>
      [] name = <<"k","e","y">> -> <<<<"K","e","y">>, <<"I","D">>, <<"R","e","f","e","r","e","n","c","e"," ","I","D">>>>
      [] name = <<"t","a","g","s">> -> <<<<"T","a","g","s">>, <<"K","e","y","w","o","r","d","s">>, <<"S","u","b","j","e","c","t">>>>
      [] name = <<"n","o","t","e","s">> -> <<<<"N","o","t","e","s">>, <<"C","o","m","m","e","n","t","s">>, <<"S","c","r","e","e","n","i","n","g"," ","N","o","t","e","s">>>>
      [] name = <<"i","n","c","l","u","d","e","d">> -> <<<<"I","n","c","l","u","d","e","d">>, <<"I","n","c","l","u","d","e">>, <<"S","e","l","e","c","t","e","d">>, <<"F","i","n","a","l">>>>
      [] name = <<"q","u","a","l","i","t","y">> -> <<<<"Q","u","a","l","i","t","y">>, <<"Q","u","a","l","i","t","y"," ","S","c","o","r","e">>, <<"R","a","t","i","n","g">>>>
      [] OTHER -> Null

\* PaperRecord | null: <<record>> or Null
createPaperFromExcelRow(headers, row) ==
    LET RECURSIVE firstOf(_)
        firstOf(possibleFields) ==
            IF possibleFields = <<>> THEN <<>>
            ELSE LET index == findHeaderIndex(headers, Head(possibleFields))
                 IN  IF index >= 1 /\ index <= Len(row) /\ trim(row[index]) # <<>>
                     THEN trim(row[index])
                     ELSE firstOf(Tail(possibleFields))
        get(fieldName) ==
            LET mapped == fieldMappingsExcel(toLowerCase(fieldName))
            IN  firstOf(IF mapped # Null THEN mapped ELSE <<fieldName>>)
        title == get(<<"t","i","t","l","e">>)
        authorsStr == get(<<"a","u","t","h","o","r">>)
        authorParts == SelectSeq([i \in 1..Len(splitAuthors(authorsStr, 1, <<>>, <<>>, TRUE)) |->
                                     trim(splitAuthors(authorsStr, 1, <<>>, <<>>, TRUE)[i])], nonEmpty)
        authors == IF authorsStr = <<>> THEN <<>>
                   ELSE [i \in 1..Len(authorParts) |-> cleanAuthorNameField(authorParts[i])]
        tagsStr == get(<<"t","a","g","s">>)
        tags == IF tagsStr = <<>> THEN <<>>
                ELSE SelectSeq([i \in 1..Len(splitTags(tagsStr, 1, <<>>, <<>>, TRUE)) |->
                                   trim(splitTags(tagsStr, 1, <<>>, <<>>, TRUE)[i])], nonEmpty)
        generated == SelectSeq(generateKey(title, IF authors # <<>> THEN authors[1] ELSE Null),
                               LAMBDA c : IsLower(c) \/ IsDigit(c) \/ c = "_")
    IN  IF title = <<>> THEN Null
        ELSE <<[key |-> orElse(get(<<"k","e","y">>), generated),
                itemType |-> orElse(get(<<"t","y","p","e">>), <<"a","r","t","i","c","l","e">>),
                publicationYear |-> parseYear(get(<<"y","e","a","r">>)),
                authors |-> authors,
                title |-> title,
                publicationTitle |-> get(<<"v","e","n","u","e">>),
                doi |-> get(<<"d","o","i">>),
                url |-> get(<<"u","r","l">>),
                abstract |-> get(<<"a","b","s","t","r","a","c","t">>),
                tags |-> tags,
                venue |-> get(<<"v","e","n","u","e">>)]>>

\* workbook.readable: XLSX.read succeeds; workbook.jsonData: the rows of the
\* first sheet
parseExcelFile(workbook) ==
    LET jsonData == workbook.jsonData
        RECURSIVE rowsFrom(_, _)
        rowsFrom(i, found) ==
            IF i > Len(jsonData) THEN found
            ELSE rowsFrom(i + 1, found \o createPaperFromExcelRow(jsonData[1], jsonData[i]))
    IN  IF ~workbook.readable
        THEN [status |-> "rejected", message |-> "Failed to parse Excel file: unreadable workbook"]
        ELSE IF Len(jsonData) < 2
        THEN [status |-> "rejected",
              message |-> "Failed to parse Excel file: Excel file must have at least a header row and one data row"]
        ELSE [status |-> "resolved", value |-> rowsFrom(2, <<>>)]

generateVenueStats(list) ==
    LET RECURSIVE each(_, _)
        each(p, venueMap) ==
            IF p > Len(list) THEN venueMap
            ELSE LET venue == orElse(list[p].venue, orElse(list[p].publicationTitle, <<"U","n","k","n","o","w","n">>))
                     existing == mapGet(venueMap, venue, [count |-> 0, type |-> "other"])
                     venueLower == toLowerCase(venue)
                     type == IF includes(venueLower, <<"j","o","u","r","n","a","l">>) \/ includes(venueLower, <<"t","r","a","n","s","a","c","t","i","o","n","s">>)
                             THEN "journal"
                             ELSE IF \/ includes(venueLower, <<"c","o","n","f","e","r","e","n","c","e">>)
                                     \/ includes(venueLower, <<"p","r","o","c","e","e","d","i","n","g","s">>)
                                     \/ includes(venueLower, <<"w","o","r","k","s","h","o","p">>)
                                     \/ includes(venueLower, <<"s","y","m","p","o","s","i","u","m">>)
                             THEN "conference"
                             ELSE IF includes(venueLower, <<"b","o","o","k">>) \/ includes(venueLower, <<"c","h","a","p","t","e","r">>)
                             THEN "book"
                             ELSE "other"
                 IN  each(p + 1, mapSet(venueMap, venue, [count |-> existing.count + 1, type |-> type]))
        venueMap == each(1, <<>>)
        stats == [v \in 1..Len(venueMap) |->
                     [name |-> venueMap[v].key, paperCount |-> venueMap[v].value.count,
                      type |-> venueMap[v].value.type]]
    IN  sortDescBy(stats, [v \in 1..Len(stats) |-> stats[v].paperCount])

transformDataForVisualization(list, currentYear) ==
    LET years == {list[p].publicationYear[1] :
                     p \in {q \in 1..Len(list) : list[q].publicationYear # Null}}
    IN  [papers |-> list,
         yearRange |-> IF years # {}
                       THEN <<CHOOSE y \in years : \A z \in years : y <= z,
                              CHOOSE y \in years : \A z \in years : z <= y>>
                       ELSE <<1990, 2025>>,
         authorNetwork |-> analyzeAuthorNetwork(list).authors,
         topicClusters |-> generateTopicClusters(list),
         venueStats |-> generateVenueStats(list),
         qualityMetrics |-> calculateQualityMetrics(list, currentYear)]

\* file.readable: readFileAsText resolves; file.text: the text it resolves with
loadCSVData(file, currentYear) ==
    IF ~file.readable
    THEN [status |-> "rejected", message |-> "Failed to load CSV data: Error reading file"]
    ELSE IF Len(parseCSV(file.text)) = 0
    THEN [status |-> "rejected", message |-> "Failed to load CSV data: No valid papers found in CSV file"]
    ELSE [status |-> "resolved", value |-> transformDataForVisualization(parseCSV(file.text), currentYear)]

\* response.readable: fetch resolves with response.ok; response.text: the body
loadCSVFromURL(response, currentYear) ==
    IF ~response.readable
    THEN [status |-> "rejected", message |-> "Failed to load CSV from URL: HTTP error!"]
    ELSE IF Len(parseCSV(response.text)) = 0
    THEN [status |-> "rejected", message |-> "Failed to load CSV from URL: No valid papers found in CSV file"]
    ELSE [status |-> "resolved",
          value |-> transformDataForVisualization(parseCSV(response.text), currentYear)]

-----------------------------------------------------------------------------
(* Loads of sheets of up to MaxRows rows through the three entry points     *)

LoadHeaders == <<<<"T","i","t","l","e">>, <<"A","u","t","h","o","r">>>>

\* A full row, a row with a title of four characters, a row without title
LoadRows == {<<<<"C","y","b","e","r"," ","r","i","s","k">>, <<"A","n","n"," ","L","e","e">>>>, <<<<"R","i","s","k">>, <<"B","o","b"," ","R","o","e">>>>, <<<<>>, <<"A","n","n"," ","L","e","e">>>>}

\* The texts of the sheets, the empty text, and a header line alone with
\* and without a line break
LoadTexts ==
    {toCSV([headers |-> LoadHeaders, rows |-> r]) : r \in SeqsUpTo(LoadRows, MaxRows)}
        \cup {<<>>, toCSV([headers |-> LoadHeaders, rows |-> <<>>]) \o <<"\n">>}

\* The row lists of the sheets, and the sheet without any row
LoadWorkbooks ==
    {<<LoadHeaders>> \o r : r \in SeqsUpTo(LoadRows, MaxRows)} \cup {<<>>}

InitLoad ==
    /\ pc = "start"
    /\ input \in {[source |-> s, readable |-> ok, text |-> t, jsonData |-> <<>>, currentYear |-> 2026] :
                     s \in {"file", "url"}, ok \in BOOLEAN, t \in LoadTexts}
                 \cup {[source |-> "workbook", readable |-> ok, text |-> <<>>, jsonData |-> j,
                        currentYear |-> 2026] : ok \in BOOLEAN, j \in LoadWorkbooks}
    /\ papers = <<>>
    /\ output = Null

RunLoadCSVData ==
    /\ pc = "start"
    /\ input.source = "file"
    /\ output' = loadCSVData(input, input.currentYear)
    /\ papers' = IF input.readable THEN parseCSV(input.text) ELSE <<>>
    /\ pc' = "loaded"
    /\ UNCHANGED input

RunLoadCSVFromURL ==
    /\ pc = "start"
    /\ input.source = "url"
    /\ output' = loadCSVFromURL(input, input.currentYear)
    /\ papers' = IF input.readable THEN parseCSV(input.text) ELSE <<>>
    /\ pc' = "loaded"
    /\ UNCHANGED input

RunParseExcelFile ==
    /\ pc = "start"
    /\ input.source = "workbook"
    /\ output' = parseExcelFile(input)
    /\ papers' = IF output'.status = "resolved" THEN output'.value ELSE <<>>
    /\ pc' = "loaded"
    /\ UNCHANGED input

NextLoad == RunLoadCSVData \/ RunLoadCSVFromURL \/ RunParseExcelFile

SpecLoad == InitLoad /\ [][NextLoad]_vars

\* The input has fewer than two lines (CSV text) or rows (workbook)
fewerThanTwo ==
    IF input.source = "workbook" THEN Len(input.jsonData) < 2
    ELSE Len(splitChar(input.text, "\n")) < 2

\* C2: a load whose input has fewer than two lines or rows, or from which
\* no record survives parsing, ends in a rejection (so no data is
\* produced), and a load of readable input with a surviving record is
\* not rejected whatever its other rows are.
C2_UnusableInputIsRejected ==
    pc = "loaded" =>
        /\ (fewerThanTwo \/ papers = <<>>) => output.status = "rejected"
        /\ (input.readable /\ ~fewerThanTwo /\ papers # <<>>) => output.status = "resolved"
-----------------------------------------------------------------------------
(* The consumers of the pipeline's output: the app's filters                *)
(* (src/unnamed/part_002), analyzeResearchGaps and the author visualization *)
(* (src/src/utils/authorVisualization.ts).  output is the ProcessedData the *)
(* app holds, papers the app's filteredPapers, input the text loaded, the   *)
(* three selections and the result shown last (view).  A function that      *)
(* sorts the array it is given in place yields its result and that array.   *)

\* The body of the app's filter effect
filterPapers(data, selectedYearRange, selectedTopic, selectedAuthor) ==
    LET inRange(paper) ==
            selectedYearRange # Null =>
                /\ paper.publicationYear # Null
                /\ paper.publicationYear[1] >= selectedYearRange[1][1]
                /\ paper.publicationYear[1] <= selectedYearRange[1][2]
        found == SelectSeq(data.topicClusters,
                           LAMBDA t : selectedTopic # Null /\ t.id = selectedTopic[1])
        inTopic(paper) ==
            found # <<>> =>
                \E p \in 1..Len(found[1].papers) : found[1].papers[p].key = paper.key
        byAuthor(paper) ==
            (selectedAuthor # Null /\ selectedAuthor[1] # <<>>) =>
                \E a \in 1..Len(paper.authors) :
                    includes(toLowerCase(paper.authors[a]), toLowerCase(selectedAuthor[1]))
    IN  SelectSeq(SelectSeq(SelectSeq(data.papers, inRange), inTopic), byAuthor)

COMMUNITY_COLORS ==
    <<"#ef4444", "#10b981", "#3b82f6", "#f59e0b", "#8b5cf6", "#06b6d4", "#ec4899", "#84cc16",
      "#f97316", "#6366f1">>

\* data: the visualization data; authors: the authors array after the call
prepareAuthorNetworkVisualization(authors, collaborations, communities, maxNodes) ==
    LET firstOf(seq, n) == SubSeq(seq, 1, IF Len(seq) < n THEN Len(seq) ELSE n)
        clamp(low, high, x) == IF x < low THEN low ELSE IF x > high THEN high ELSE x
        shown == firstOf(communities, Len(COMMUNITY_COLORS))
        edgesOf(visible) ==
            firstOf([e \in 1..Len(visible) |->
                        [source |-> visible[e].source, target |-> visible[e].target,
                         weight |-> visible[e].weight,
                         width |-> clamp(1, 8, visible[e].weight)]], 200)
        visualization(topAuthors) ==
            LET authorIds == {topAuthors[a].cleanName : a \in 1..Len(topAuthors)}
                holding(member) == {c \in 1..Len(shown) :
                    \E m \in 1..Len(shown[c].members) : shown[c].members[m] = member}
                community(member) ==
                    IF holding(member) = {} THEN Null
                    ELSE <<shown[CHOOSE c \in holding(member) : \A d \in holding(member) : d <= c].id>>
                colorOf(id) ==
                    COMMUNITY_COLORS[CHOOSE c \in 1..Len(shown) :
                        shown[c].id = id[1] /\ \A d \in 1..(c - 1) : shown[d].id # id[1]]
            IN  [nodes |-> [a \in 1..Len(topAuthors) |->
                               [id |-> topAuthors[a].cleanName,
                                name |-> topAuthors[a].name,
                                paperCount |-> topAuthors[a].paperCount,
                                influence |-> topAuthors[a].influence,
                                size |-> clamp(5, 30, topAuthors[a].paperCount * 2),
                                color |-> IF community(topAuthors[a].cleanName) = Null THEN "#6b7280"
                                          ELSE colorOf(community(topAuthors[a].cleanName)),
                                community |-> community(topAuthors[a].cleanName)]],
                 edges |-> edgesOf(SelectSeq(collaborations,
                               LAMBDA edge : edge.source \in authorIds /\ edge.target \in authorIds)),
                 communities |-> [c \in 1..Len(shown) |->
                                     [id |-> shown[c].id, name |-> shown[c].name,
                                      color |-> COMMUNITY_COLORS[c],
                                      members |-> SelectSeq(shown[c].members,
                                                            LAMBDA member : member \in authorIds)]]]
        sorted(list) == sortDescBy(list, [a \in 1..Len(list) |-> list[a].influence])
    IN  [data |-> visualization(firstOf(sorted(authors), maxNodes)), authors |-> sorted(authors)]

\* ranking: the three rankings (values in tenths); authors: the authors array
\* after the call
generateAuthorRankingData(authors) ==
    LET firstTwenty(seq) == SubSeq(seq, 1, IF Len(seq) < 20 THEN Len(seq) ELSE 20)
        byCount(list) == sortDescBy(list, [a \in 1..Len(list) |-> list[a].paperCount])
        byInfluence(list) == sortDescBy(list, [a \in 1..Len(list) |-> list[a].influence])
        place(list, i) ==
            1 + Cardinality({j \in 1..Len(list) :
                    LET mine == list[i].averagePapersPerYear
                        other == list[j].averagePapersPerYear
                    IN  \/ other.num * mine.den > mine.num * other.den
                        \/ other.num * mine.den = mine.num * other.den /\ j < i})
        byProductivity(list) ==
            [p \in 1..Len(list) |-> list[CHOOSE i \in 1..Len(list) : place(list, i) = p]]
        ranked(list, value(_)) ==
            [a \in 1..Len(firstTwenty(list)) |->
                [name |-> list[a].name, value |-> value(list[a]), rank |-> a]]
        paperCountOf(author) == author.paperCount * 10
        influenceOf(author) == author.influence
        productivityOf(author) ==
            (20 * author.averagePapersPerYear.num + author.averagePapersPerYear.den)
                \div (2 * author.averagePapersPerYear.den)
    IN  [ranking |->
            [byPaperCount |-> ranked(byCount(authors), paperCountOf),
             byInfluence |-> ranked(byInfluence(byCount(authors)), influenceOf),
             byProductivity |-> ranked(byProductivity(byInfluence(byCount(authors))), productivityOf)],
         authors |-> byProductivity(byInfluence(byCount(authors)))]
\* Rows of the dataset the app loads
MaxLoaded == 2

InitApp ==
    LET headers == <<<<"T","i","t","l","e">>, <<"A","u","t","h","o","r">>, <<"P","u","b","l","i","c","a","t","i","o","n"," ","Y","e","a","r">>>>
        rows == {<<<<"C","y","b","e","r"," ","r","i","s","k">>, <<"A","n","n"," ","L","e","e",";"," ","B","o","b"," ","R","o","e">>, <<"2","0","2","1">>>>,
                 <<<<"N","e","t","w","o","r","k"," ","g","a","m","e">>, <<"A","n","n"," ","L","e","e">>, <<"2","0","2","3">>>>,
                 <<<<"P","r","i","v","a","t","e"," ","d","a","t","a">>, <<"B","o","b"," ","R","o","e"," ","&"," ","C","y"," ","P","o","e">>, <<"2","0","2","2">>>>}
    IN  /\ pc = "start"
        /\ input \in {[csvContent |-> toCSV([headers |-> headers, rows |-> chosen]),
                       selectedYearRange |-> Null, selectedTopic |-> Null,
                       selectedAuthor |-> Null, view |-> Null] :
                         chosen \in SeqsUpTo(rows, MaxLoaded)}
        /\ papers = <<>>
        /\ output = Null

\* loadData: the pipeline's output becomes the app's data
LoadData ==
    /\ pc = "start"
    /\ output' = transformDataForVisualization(parseCSV(input.csvContent), 2026)
    /\ papers' = output'.papers
    /\ pc' = "loaded"
    /\ UNCHANGED input

HandleYearRangeChange ==
    /\ pc = "loaded"
    /\ \E range \in {<<2021, 2022>>} :
           input' = [input EXCEPT !.selectedYearRange = <<range>>]
    /\ papers' = filterPapers(output, input'.selectedYearRange, input'.selectedTopic,
                              input'.selectedAuthor)
    /\ UNCHANGED <<pc, output>>

HandleTopicSelect ==
    /\ pc = "loaded"
    /\ \E topicId \in {"security", "network"} :
           input' = [input EXCEPT !.selectedTopic =
                                      IF input.selectedTopic = <<topicId>> THEN Null ELSE <<topicId>>]
    /\ papers' = filterPapers(output, input'.selectedYearRange, input'.selectedTopic,
                              input'.selectedAuthor)
    /\ UNCHANGED <<pc, output>>

HandleAuthorSelect ==
    /\ pc = "loaded"
    /\ \E authorId \in {<<"l","e","e">>} :
           input' = [input EXCEPT !.selectedAuthor =
                                      IF input.selectedAuthor = <<authorId>> THEN Null ELSE <<authorId>>]
    /\ papers' = filterPapers(output, input'.selectedYearRange, input'.selectedTopic,
                              input'.selectedAuthor)
    /\ UNCHANGED <<pc, output>>

ClearFilters ==
    /\ pc = "loaded"
    /\ input' = [input EXCEPT !.selectedYearRange = Null, !.selectedTopic = Null,
                              !.selectedAuthor = Null]
    /\ papers' = IF input' = input THEN papers ELSE filterPapers(output, Null, Null, Null)
    /\ UNCHANGED <<pc, output>>

\* AdvancedSearch.performSearch: the papers of data that pass the search's
\* own filters
performSearch(data, filters) ==
    LET anyOf(seq, test(_)) == \E i \in 1..Len(seq) : test(seq[i])
        query == toLowerCase(filters.query)
        byQuery(paper) ==
            trim(filters.query) # <<>> =>
                \/ includes(toLowerCase(paper.title), query)
                \/ includes(toLowerCase(paper.abstract), query)
                \/ anyOf(paper.authors, LAMBDA author : includes(toLowerCase(author), query))
                \/ anyOf(paper.tags, LAMBDA tag : includes(toLowerCase(tag), query))
        inRange(paper) ==
            /\ paper.publicationYear # Null
            /\ paper.publicationYear[1] >= filters.yearRange[1]
            /\ paper.publicationYear[1] <= filters.yearRange[2]
        byAuthor(paper) ==
            Len(filters.authors) > 0 =>
                anyOf(paper.authors, LAMBDA author :
                    anyOf(filters.authors, LAMBDA filterAuthor :
                        includes(toLowerCase(author), toLowerCase(filterAuthor))))
        paperTopics(paper) ==
            {data.topicClusters[c].label :
                c \in {d \in 1..Len(data.topicClusters) :
                          anyOf(data.topicClusters[d].papers, LAMBDA q : q.key = paper.key)}}
        byTopic(paper) ==
            Len(filters.topics) > 0 => anyOf(filters.topics, LAMBDA topic : topic \in paperTopics(paper))
        byVenue(paper) ==
            Len(filters.venues) > 0 =>
                anyOf(filters.venues, LAMBDA venue :
                    \/ paper.venue # Null /\ includes(toLowerCase(paper.venue), toLowerCase(venue))
                    \/ paper.publicationTitle # Null
                           /\ includes(toLowerCase(paper.publicationTitle), toLowerCase(venue)))
        byItemType(paper) ==
            Len(filters.itemTypes) > 0 => anyOf(filters.itemTypes, LAMBDA type : type = paper.itemType)
    IN  SelectSeq(data.papers, LAMBDA paper :
            /\ byQuery(paper) /\ inRange(paper) /\ byAuthor(paper)
            /\ byTopic(paper) /\ byVenue(paper) /\ byItemType(paper))

\* The filters of the search view: the initial ones of the mounted
\* component, and those after one updateFilter
searchFilters(data) ==
    LET initial == [query |-> <<>>, yearRange |-> data.yearRange, authors |-> <<>>,
                    topics |-> <<>>, venues |-> <<>>, itemTypes |-> <<>>]
    IN  {initial,
         [initial EXCEPT !.query = <<"r","i","s","k">>],
         [initial EXCEPT !.topics = <<"Network">>]}

\* The search view's effect on [filters, data.papers]: performSearch hands
\* its results to the app's handleSearchResults
HandleSearchResults ==
    /\ pc = "loaded"
    /\ \E filters \in searchFilters(output) : papers' = performSearch(output, filters)
    /\ UNCHANGED <<pc, input, output>>

\* ResearchGapDashboard: analyzeResearchGaps(data.papers, data.topicClusters,
\* data.authorNetwork).  The analyzer reads its three arguments with filter,
\* map and reduce only; the view keeps the temporal analysis.
RunAnalyzeResearchGaps ==
    /\ pc = "loaded"
    /\ input' = [input EXCEPT !.view = [gaps |-> analyzeTemporalGaps(output.papers, 2026)]]
    /\ UNCHANGED <<pc, papers, output>>

\* prepareAuthorNetworkVisualization on the author list of the data, with the
\* collaborations and communities of the same papers
RunPrepareAuthorNetworkVisualization ==
    /\ pc = "loaded"
    /\ \E call \in {prepareAuthorNetworkVisualization(
                        output.authorNetwork,
                        buildCollaborationNetwork(output.papers),
                        detectAuthorCommunities(output.authorNetwork,
                                                buildCollaborationNetwork(output.papers)),
                        100)} :
           /\ input' = [input EXCEPT !.view = call.data]
           /\ output' = [output EXCEPT !.authorNetwork = call.authors]
    /\ UNCHANGED <<pc, papers>>

\* generateAuthorRankingData on the author list of the data
RunGenerateAuthorRankingData ==
    /\ pc = "loaded"
    /\ \E call \in {generateAuthorRankingData(output.authorNetwork)} :
           /\ input' = [input EXCEPT !.view = call.ranking]
           /\ output' = [output EXCEPT !.authorNetwork = call.authors]
    /\ UNCHANGED <<pc, papers>>

NextApp ==
    \/ LoadData
    \/ HandleYearRangeChange
    \/ HandleTopicSelect
    \/ HandleAuthorSelect
    \/ ClearFilters
    \/ HandleSearchResults
    \/ RunAnalyzeResearchGaps
    \/ RunPrepareAuthorNetworkVisualization
    \/ RunGenerateAuthorRankingData

SpecApp == InitApp /\ [][NextApp]_vars

\* C12: once the pipeline has produced the data, no consumer operation (the
\* app's filters, analyzeResearchGaps, prepareAuthorNetworkVisualization,
\* generateAuthorRankingData) changes it: every sequence inside it keeps its
\* elements and their order.
C12_ConsumersLeaveDataUnchanged == [][pc = "loaded" => output' = output]_vars
-----------------------------------------------------------------------------
(* The external enrichment service (src/DEPLOYMENT.md).  papers is the list *)
(* handed to enrichPaperData, each paper with the state of its two requests:*)
(* citation (SemanticScholarService.getCitationData) is "idle" before the   *)
(* paper's batch is issued, "fetching" while makeRequest waits for its      *)
(* delay and its response, "backoff" while it waits to retry after a 429,   *)
(* and "null" or "data" once settled; journal                               *)
(* (JournalMetricsService.getJournalImpactData) is "idle", "fetching",      *)
(* "null" or "data".  input holds maxPapers, the loop index i and the keys  *)
(* of the module's cache, whose entries outlive the call; output is         *)
(* enrichedData.  Citation data is named by the paper's doi and journal     *)
(* data by its venue.                                                       *)

batchSize == 5

\* papers.slice(0, maxPapers), as the positions of the papers
papersToProcess(list, maxPapers) == 1..(IF Len(list) < maxPapers THEN Len(list) ELSE maxPapers)

\* batch.map(async paper => ...) for the batch after position i: every paper
\* of the batch looks its two keys up in the cache and requests what is not
\* there
issueBatch(list, maxPapers, i, cache) ==
    [p \in 1..Len(list) |->
        IF p \in papersToProcess(list, maxPapers) /\ p > i /\ p <= i + batchSize
        THEN [list[p] EXCEPT
                 !.citation = IF <<"citations", list[p].doi>> \in cache THEN "data" ELSE "fetching",
                 !.journal = IF <<"journal", list[p].venue>> \in cache THEN "data" ELSE "fetching"]
        ELSE list[p]]

\* Promise.all of one request only: resolved as soon as one paper of the
\* batch has settled
batchSettledAny(list, maxPapers, i) ==
    \E p \in papersToProcess(list, maxPapers) :
        /\ p > i /\ p <= i + batchSize
        /\ list[p].citation \in {"null", "data"}
        /\ list[p].journal \in {"null", "data"}

\* Promise.all(batchPromises) has resolved: both requests of every paper of
\* the batch have settled
batchSettled(list, maxPapers, i) ==
    \A p \in papersToProcess(list, maxPapers) :
        (p > i /\ p <= i + batchSize) =>
            /\ list[p].citation \in {"null", "data"}
            /\ list[p].journal \in {"null", "data"}

\* The result of one paper's promise
resultOf(paper) ==
    [paperKey |-> paper.key,
     citations |-> IF paper.citation = "data" THEN <<paper.doi>> ELSE Null,
     journal |-> IF paper.journal = "data" THEN <<paper.venue>> ELSE Null]

\* batchResults.forEach(result => ...) on the batch after position i
RECURSIVE collectBatch(_, _, _, _, _)
collectBatch(list, maxPapers, i, p, enrichedData) ==
    IF p > i + batchSize \/ p \notin papersToProcess(list, maxPapers) THEN enrichedData
    ELSE collectBatch(list, maxPapers, i, p + 1,
             IF resultOf(list[p]).citations # Null \/ resultOf(list[p]).journal # Null
             THEN mapSet(enrichedData, resultOf(list[p]).paperKey,
                         [citations |-> resultOf(list[p]).citations,
                          journal |-> resultOf(list[p]).journal])
             ELSE enrichedData)

\* Papers processed by the calls explored
MaxEnriched == 6

\* The papers handed to the service: one more than maxPapers, the last paper
\* processed published at the venue of the first
EnrichPapers ==
    [p \in 1..(MaxEnriched + 1) |->
        [key |-> p, doi |-> p, venue |-> IF p = MaxEnriched THEN 1 ELSE p,
         citation |-> "idle", journal |-> "idle"]]

\* The cache entries of the first batch's papers in subset cached
cacheOf(cached) ==
    {<<"citations", EnrichPapers[p].doi>> : p \in cached}
        \cup {<<"journal", EnrichPapers[p].venue>> : p \in cached}

\* A call on an empty cache
InitEnrich ==
    /\ pc = "start"
    /\ input = [maxPapers |-> MaxEnriched, i |-> 0, cache |-> {}]
    /\ papers = EnrichPapers
    /\ output = <<>>

\* A call on a cache that earlier calls have filled for all but one or two
\* papers of the first batch
InitEnrichCached ==
    /\ pc = "start"
    /\ input \in {[maxPapers |-> MaxEnriched, i |-> 0, cache |-> cacheOf(cached)] :
                     cached \in {c \in SUBSET (1..batchSize) : Cardinality(c) >= batchSize - 2}}
    /\ papers = EnrichPapers
    /\ output = <<>>

\* enrichPaperData(papers, maxPapers) up to its first await
CallEnrichPaperData ==
    /\ pc = "start"
    /\ IF papersToProcess(papers, input.maxPapers) = {}
       THEN pc' = "resolved" /\ UNCHANGED papers
       ELSE /\ pc' = "awaitBatch"
            /\ papers' = issueBatch(papers, input.maxPapers, 0, input.cache)
    /\ UNCHANGED <<input, output>>

\* The response to a citation request: data (ok, a match), empty (ok, no
\* match), error (network error, unreadable body or a status other than ok
\* and 429) or limited (429)
CitationRespond ==
    \E p \in 1..Len(papers), outcome \in {"data", "empty", "error", "limited"} :
        /\ papers[p].citation = "fetching"
        /\ papers' = [papers EXCEPT ![p].citation =
                          CASE outcome = "data" -> "data"
                            [] outcome = "limited" -> "backoff"
                            [] OTHER -> "null"]
        /\ input' = IF outcome = "data"
                    THEN [input EXCEPT !.cache = @ \cup {<<"citations", papers[p].doi>>}]
                    ELSE input
        /\ UNCHANGED <<pc, output>>

\* makeRequest after a 429: delay(1000), then the same request again
CitationRetry ==
    \E p \in 1..Len(papers) :
        /\ papers[p].citation = "backoff"
        /\ papers' = [papers EXCEPT ![p].citation = "fetching"]
        /\ UNCHANGED <<pc, input, output>>

\* The response to a journal request: data, empty or error (network error,
\* unreadable body or a status that is not ok)
JournalRespond ==
    \E p \in 1..Len(papers), outcome \in {"data", "empty", "error"} :
        /\ papers[p].journal = "fetching"
        /\ papers' = [papers EXCEPT ![p].journal = IF outcome = "data" THEN "data" ELSE "null"]
        /\ input' = IF outcome = "data"
                    THEN [input EXCEPT !.cache = @ \cup {<<"journal", papers[p].venue>>}]
                    ELSE input
        /\ UNCHANGED <<pc, output>>

\* await Promise.all(batchPromises) returns: the results are stored, and the
\* call waits for the delay or returns
CollectBatch ==
    /\ pc = "awaitBatch"
    /\ batchSettled(papers, input.maxPapers, input.i)
    /\ output' = collectBatch(papers, input.maxPapers, input.i, input.i + 1, output)
    /\ pc' = IF input.i + batchSize < Cardinality(papersToProcess(papers, input.maxPapers))
             THEN "awaitDelay" ELSE "resolved"
    /\ UNCHANGED <<input, papers>>

\* The timeout between batches fires: i += batchSize and the next batch is
\* issued
DelayElapsed ==
    /\ pc = "awaitDelay"
    /\ input' = [input EXCEPT !.i = @ + batchSize]
    /\ papers' = issueBatch(papers, input.maxPapers, input'.i, input.cache)
    /\ pc' = "awaitBatch"
    /\ UNCHANGED output

NextEnrich ==
    \/ CallEnrichPaperData
    \/ CitationRespond
    \/ CitationRetry
    \/ JournalRespond
    \/ CollectBatch
    \/ DelayElapsed

SpecEnrich == InitEnrich /\ [][NextEnrich]_vars

\* Every response arrives, every timer fires and every continuation runs
SpecEnrichFair ==
    /\ InitEnrichCached
    /\ [][NextEnrich]_vars
    /\ WF_vars(CallEnrichPaperData)
    /\ WF_vars(CitationRespond)
    /\ WF_vars(CitationRetry)
    /\ WF_vars(JournalRespond)
    /\ WF_vars(CollectBatch)
    /\ WF_vars(DelayElapsed)

\* The entry of enrichedData that the requests of paper p account for
ownEntry(p) ==
    [citations |-> resultOf(papers[p]).citations, journal |-> resultOf(papers[p]).journal]

\* C13: whatever the individual requests answer (network error, non-OK
\* status, empty result), enrichPaperData resolves; and when it has
\* resolved, a paper whose requests both gave nothing has no entry in the
\* result, and every other processed paper has the entry of its own
\* requests' data, a failed request's part being null.
C13_FailuresAreAbsorbed ==
    /\ [](pc = "resolved" =>
            \A p \in 1..Len(papers) :
                IF ownEntry(p).citations = Null /\ ownEntry(p).journal = Null
                THEN \A e \in 1..Len(output) : output[e].key # papers[p].key
                ELSE \E e \in 1..Len(output) :
                         output[e].key = papers[p].key /\ output[e].value = ownEntry(p))
    /\ <>(pc = "resolved")

\* Paper p has a request that was issued and has not settled
outstanding(p) == papers[p].citation \in {"fetching", "backoff"} \/ papers[p].journal = "fetching"

\* C14: during one enrichPaperData call at most 5 papers have requests
\* outstanding at any moment; a paper of a later batch is requested only
\* when every request of the batches before has settled, and its requests
\* are issued by the step that ends the delay between batches; and no more
\* than maxPapers papers are ever requested.
C14_BoundedConcurrency ==
    /\ [](/\ Cardinality({p \in 1..Len(papers) : outstanding(p)}) <= 5
          /\ \A p, q \in 1..Len(papers) :
                 (papers[q].citation # "idle" /\ (q - 1) \div 5 > (p - 1) \div 5) =>
                     (papers[p].citation \in {"null", "data"} /\ papers[p].journal \in {"null", "data"})
          /\ Cardinality({p \in 1..Len(papers) : papers[p].citation # "idle"}) <= input.maxPapers)
    /\ [][\A p \in 1..Len(papers) :
              (p > 5 /\ papers[p].citation = "idle" /\ papers'[p].citation # "idle") =>
                  pc = "awaitDelay"]_vars

\* A paper of the second batch has a request outstanding
C14_Witness ==
    /\ pc = "awaitBatch"
    /\ input.i = 5
    /\ \E p \in 1..Len(papers) : p > 5 /\ outstanding(p)
    /\ \E p \in 1..5 : papers[p].citation = "null" /\ papers[p].journal = "data"
-----------------------------------------------------------------------------
(* loadActualResearchData (src/unnamed/part_004): input is the answer of    *)
(* the two fetches, raw for /raw-data.csv (ok, text) and screened for       *)
(* /screened-data.xlsx (ok, readable, jsonData); a fetch that rejects is a  *)
(* response that is not ok.  output is what the promise settles with.       *)

\* The sample dataset, its six papers named by key and year; its analysis is
\* not computed
generateSampleData ==
    [papers |-> <<[key |-> "moore2024security", publicationYear |-> <<2024>>],
                  [key |-> "anderson2023ai", publicationYear |-> <<2023>>],
                  [key |-> "huang2022network", publicationYear |-> <<2022>>],
                  [key |-> "chen2021adversarial", publicationYear |-> <<2021>>],
                  [key |-> "wilson2020privacy", publicationYear |-> <<2020>>],
                  [key |-> "taylor2019blockchain", publicationYear |-> <<2019>>]>>]

\* The dataset the catch block of loadActualResearchData returns
sampleFallback ==
    [status |-> "resolved",
     value |-> [rawData |-> generateSampleData, screenedData |-> generateSampleData,
                combinedData |-> generateSampleData]]

\* loadActualResearchData from "Ensure we have data" on, both lists of
\* papers being read
processDatasets(rawPapers, screenedPapers, currentYear) ==
    LET datasets(rawData, screenedData) ==
            [status |-> "resolved",
             value |-> [rawData |-> rawData,
                        screenedData |-> IF Len(screenedPapers) > 0 THEN screenedData ELSE rawData,
                        combinedData |-> IF Len(screenedPapers) > 0 THEN screenedData ELSE rawData]]
    IN  IF Len(rawPapers) = 0 THEN sampleFallback
        ELSE datasets(transformDataForVisualization(rawPapers, currentYear),
                      IF Len(screenedPapers) > 0
                      THEN transformDataForVisualization(screenedPapers, currentYear)
                      ELSE Null)

InitActual ==
    /\ pc = "start"
    /\ input \in {[raw |-> [ok |-> rawOk, text |-> t],
                   screened |-> [ok |-> screenedOk, readable |-> readable, jsonData |-> j],
                   currentYear |-> 2026] :
                     rawOk \in BOOLEAN, t \in {x \in LoadTexts : Len(splitChar(x, "\n")) <= 2},
                     screenedOk \in BOOLEAN,
                     readable \in BOOLEAN, j \in {w \in LoadWorkbooks : Len(w) <= 2}}
    /\ papers = <<>>
    /\ output = Null

\* The fetch of the raw CSV settles: papers becomes rawPapers, or the error
\* is thrown on to the catch block
FetchRawData ==
    /\ pc = "start"
    /\ IF input.raw.ok
       THEN /\ papers' = parseCSV(input.raw.text)
            /\ pc' = "raw"
            /\ UNCHANGED output
       ELSE /\ output' = sampleFallback
            /\ pc' = "loaded"
            /\ UNCHANGED papers
    /\ UNCHANGED input

\* The fetch of the screened spreadsheet settles, and the function runs to
\* its end
FetchScreenedData ==
    /\ pc = "raw"
    /\ \E screenedPapers \in
           {IF input.screened.ok /\ parseExcelFile(input.screened).status = "resolved"
            THEN parseExcelFile(input.screened).value ELSE <<>>} :
           output' = processDatasets(papers, screenedPapers, input.currentYear)
    /\ pc' = "loaded"
    /\ UNCHANGED <<input, papers>>

NextActual == FetchRawData \/ FetchScreenedData

SpecActual == InitActual /\ [][NextActual]_vars

\* The papers that the screened spreadsheet yields
screenedYield ==
    IF input.screened.ok /\ parseExcelFile(input.screened).status = "resolved"
    THEN parseExcelFile(input.screened).value ELSE <<>>

\* The papers that the raw CSV yields
rawYield == IF input.raw.ok THEN parseCSV(input.raw.text) ELSE <<>>

\* C15: loadActualResearchData always resolves with a dataset; the screened
\* spreadsheet's papers are the combined dataset whenever the spreadsheet
\* loads and yields a paper, the raw CSV's papers are otherwise, and the
\* sample data is the combined dataset only when neither file yields a
\* paper.
C15_ScreenedThenRawThenSample ==
    pc = "loaded" =>
        /\ output.status = "resolved"
        /\ screenedYield # <<>> => output.value.combinedData.papers = screenedYield
        /\ (screenedYield = <<>> /\ rawYield # <<>>) => output.value.combinedData.papers = rawYield
        /\ output.value.combinedData = generateSampleData => (screenedYield = <<>> /\ rawYield = <<>>)
-----------------------------------------------------------------------------
(* One line of CSV through parseCSVLine and getField.  The line is written *)
(* from a row of cells with every cell quoted and its quotes doubled; the  *)
(* cells are short texts of letters, commas and double quotes.             *)

\* Most characters in a cell of the scanned line
MaxCellLen == 3

LineCells == SeqsUpTo({"a", ",", "\""}, MaxCellLen) \ {<<>>}

\* The cell alone, followed by another cell, or following another cell
LineRows == UNION {{<<c>>, <<c, <<"z">>>>, <<<<"z">>, c>>} : c \in LineCells}

InitLine ==
    /\ pc = "start"
    /\ \E r \in LineRows, p \in {"parseCSVLine", "parseCSVLine0"} :
           input = [row |-> r, line |-> toCSVLine(r), parser |-> p]
    /\ papers = <<>>
    /\ output = Null

RunParseCSVLine ==
    /\ pc = "start"
    /\ input.parser = "parseCSVLine"
    /\ output' = parseCSVLine(input.line)
    /\ pc' = "scanned"
    /\ UNCHANGED <<input, papers>>

RunParseCSVLine0 ==
    /\ pc = "start"
    /\ input.parser = "parseCSVLine0"
    /\ output' = parseCSVLine0(input.line)
    /\ pc' = "scanned"
    /\ UNCHANGED <<input, papers>>

\* getField hands every non-blank field to the record through cleanField;
\* papers holds the values the record receives, field by field
ReadFields ==
    /\ pc = "scanned"
    /\ papers' = [i \in 1..Len(output) |->
                     IF trim(output[i]) # <<>> THEN cleanField(output[i]) ELSE <<>>]
    /\ pc' = "read"
    /\ UNCHANGED <<input, output>>

NextLine == RunParseCSVLine \/ RunParseCSVLine0 \/ ReadFields

SpecLine == InitLine /\ [][NextLine]_vars

\* C17: parseCSVLine starts a new field at exactly the commas outside the
\* quoted sections, and a doubled quote inside a quoted field gives one
\* literal quote in the value the record receives, wherever it stands: the
\* fields of a line written from a row are the cells of the row, and so are
\* the values read from them.
C17_QuotedFieldsSurvive ==
    /\ pc \in {"scanned", "read"} =>
           /\ Len(output) = Len(input.row)
           /\ \A i \in 1..Len(output) : output[i] = input.row[i]
    /\ pc = "read" => papers = input.row
-----------------------------------------------------------------------------
(* One data row under a header row, through the three record builders.     *)
(* The header row is an arrangement of column names of the reference       *)
(* manager's export, and every cell holds the value of its column.         *)

\* Most columns of the header row
MaxColumns == 3

ColumnNames == {<<"T","i","t","l","e">>, <<"P","u","b","l","i","c","a","t","i","o","n"," ","T","i","t","l","e">>, <<"S","h","o","r","t"," ","T","i","t","l","e">>, <<"A","u","t","h","o","r">>}

ColumnRows ==
    {h \in SeqsUpTo(ColumnNames, MaxColumns) :
        h # <<>> /\ \A i, j \in 1..Len(h) : i # j => h[i] # h[j]}

CellUnder(name) ==
    CASE name = <<"T","i","t","l","e">> -> <<"R","i","s","k"," ","g","a","m","e","s">>
      [] name = <<"P","u","b","l","i","c","a","t","i","o","n"," ","T","i","t","l","e">> -> <<"G","a","m","e"," ","J","o","u","r","n","a","l">>
      [] name = <<"S","h","o","r","t"," ","T","i","t","l","e">> -> <<"R","i","s","k","s">>
      [] name = <<"A","u","t","h","o","r">> -> <<"A","n","n"," ","L","e","e">>

InitColumns ==
    /\ pc = "start"
    /\ \E h \in ColumnRows, b \in {"createPaperRecord", "createPaperRecord0", "createPaperFromExcelRow"} :
           input = [headers |-> h, fields |-> [i \in 1..Len(h) |-> CellUnder(h[i])], builder |-> b]
    /\ papers = <<>>
    /\ output = Null

RunCreatePaperRecord ==
    /\ pc = "start"
    /\ input.builder = "createPaperRecord"
    /\ papers' = createPaperRecord(input.headers, input.fields)
    /\ pc' = "created"
    /\ UNCHANGED <<input, output>>

RunCreatePaperRecord0 ==
    /\ pc = "start"
    /\ input.builder = "createPaperRecord0"
    /\ papers' = createPaperRecord0(input.headers, input.fields)
    /\ pc' = "created"
    /\ UNCHANGED <<input, output>>

RunCreatePaperFromExcelRow ==
    /\ pc = "start"
    /\ input.builder = "createPaperFromExcelRow"
    /\ papers' = createPaperFromExcelRow(input.headers, input.fields)
    /\ pc' = "created"
    /\ UNCHANGED <<input, output>>

NextColumns == RunCreatePaperRecord \/ RunCreatePaperRecord0 \/ RunCreatePaperFromExcelRow

SpecColumns == InitColumns /\ [][NextColumns]_vars

\* C18: a header equal to an accepted column name, whatever the case, is
\* chosen before any header that only contains the name: when the header row
\* has a 'Title' column, the title of the record is the cell of that column,
\* wherever 'Publication Title' and 'Short Title' stand.
C18_ExactHeaderPreferred ==
    pc = "created" =>
        \A i \in 1..Len(input.headers) :
            toLowerCase(input.headers[i]) = <<"t","i","t","l","e">> =>
                papers # <<>> /\ papers[1].title = input.fields[i]
-----------------------------------------------------------------------------
(* The author field through parseAuthors: the field lists up to MaxListed  *)
(* names, one separator between two names.  No name carries an honorific   *)
(* or a generational suffix, so cleanAuthorName leaves each as it is.      *)

\* Most authors listed in the field
MaxListed == 3

ListedNames == {<<"A","n","n"," ","L","e","e">>, <<"R","o","l","a","n","d"," ","S","m","i","t","h">>, <<"S","a","n","d","y"," ","O","r","r">>}

ListedSeparators == {<<";"," ">>, <<","," ">>, <<" ","&"," ">>, <<" ","a","n","d"," ">>}

\* names[1] sep[1] names[2] sep[2] ... names[n]
RECURSIVE listAuthors(_, _)
listAuthors(names, separators) ==
    IF Len(names) = 1 THEN names[1]
    ELSE names[1] \o separators[1] \o listAuthors(Tail(names), Tail(separators))

InitByline ==
    /\ pc = "start"
    /\ \E n \in 1..MaxListed :
           \E names \in [1..n -> ListedNames], separators \in [1..(n - 1) -> ListedSeparators],
              p \in {"csv", "spreadsheet"} :
               input = [names |-> names, authorsStr |-> listAuthors(names, separators), parser |-> p]
    /\ papers = <<>>
    /\ output = Null

\* parseAuthors of the CSV parser
RunParseAuthors ==
    /\ pc = "start"
    /\ input.parser = "csv"
    /\ output' = parseAuthors(input.authorsStr)
    /\ pc' = "parsed"
    /\ UNCHANGED <<input, papers>>

\* parseAuthors of the spreadsheet parser, on the Author cell of a row
RunParseAuthorsExcel ==
    /\ pc = "start"
    /\ input.parser = "spreadsheet"
    /\ papers' = createPaperFromExcelRow(<<<<"T","i","t","l","e">>, <<"A","u","t","h","o","r">>>>, <<<<"R","i","s","k"," ","g","a","m","e","s">>, input.authorsStr>>)
    /\ output' = papers'[1].authors
    /\ pc' = "parsed"
    /\ UNCHANGED input

NextByline == RunParseAuthors \/ RunParseAuthorsExcel

SpecByline == InitByline /\ [][NextByline]_vars

\* C19: parseAuthors splits the field only at ';', ',', '&' and at the word
\* "and": the result holds the listed names, one entry each, in byline
\* order; "Roland Smith" stays one author.
C19_OneEntryPerListedAuthor == pc = "parsed" => output = input.names
-----------------------------------------------------------------------------
(* Attribution of byline entries to profiles                               *)

\* The byline entries of list in the order buildAuthorProfiles meets them
RECURSIVE bylineEntries(_)
bylineEntries(list) ==
    IF list = <<>> THEN <<>> ELSE Head(list).authors \o bylineEntries(Tail(list))

\* The key of the profile buildAuthorProfiles credits a byline entry to
attributedTo(list, authorName) ==
    cleanAuthorName(canonicalAuthorName(detectDuplicateAuthors(distinct(bylineEntries(list))),
                                        authorName))

\* C20: two names of the corpus that are not similar to each other (such as
\* "John Smith" and "Jane Smith") are never credited to the same profile,
\* whatever other variants occur and in whatever order.
C20_DissimilarNamesKeptApart ==
    pc = "done" =>
        \A n1, n2 \in corpusAuthors :
            ~areAuthorNamesSimilar(cleanAuthorName(n1), cleanAuthorName(n2)) =>
                /\ attributedTo(papers, n1) # attributedTo(papers, n2)
                /\ \E a \in 1..Len(output.authors) :
                       output.authors[a].cleanName = attributedTo(papers, n1)
-----------------------------------------------------------------------------
(* areAuthorNamesSimilar on pairs of names as detectDuplicateAuthors hands *)
(* them over: both cleaned by cleanAuthorName.  A name is up to MaxTokens  *)
(* tokens, one space between two tokens.                                   *)

\* Most tokens of a compared name
MaxTokens == 2

NameTokens == {<<"J","o","h","n">>, <<"S","m","i","t","h">>, <<"J">>}

ComparedNames == {join(t, <<" ">>) : t \in SeqsUpTo(NameTokens, MaxTokens) \ {<<>>}}

InitSimilar ==
    /\ pc = "start"
    /\ input \in [author : ComparedNames, otherAuthor : ComparedNames]
    /\ papers = <<>>
    /\ output = Null

RunAreAuthorNamesSimilar ==
    /\ pc = "start"
    /\ output' = areAuthorNamesSimilar(cleanAuthorName(input.author),
                                       cleanAuthorName(input.otherAuthor))
    /\ pc' = "compared"
    /\ UNCHANGED <<input, papers>>

NextSimilar == RunAreAuthorNamesSimilar

SpecSimilar == InitSimilar /\ [][NextSimilar]_vars

\* C21: two names of two tokens each, one the token reversal of the other
\* ("smith john" and "john smith"), are judged similar.
C21_SwappedNamesAreSimilar ==
    pc = "compared" =>
        \A first, last \in NameTokens :
            (/\ input.author = first \o <<" ">> \o last
             /\ input.otherAuthor = last \o <<" ">> \o first) => output = TRUE
-----------------------------------------------------------------------------
(* classifyPaperTopics on single papers whose text is shorter and longer   *)
(* than 100 characters: the abstract is a phrase of 14 characters repeated *)
(* up to MaxCopies times.                                                  *)

\* Most copies of the phrase in an abstract
MaxCopies == 8

ClassifiedPhrase == <<"r","i","s","k"," ","a","n","d"," ","c","o","s","t"," ">>

RECURSIVE copiesOf(_, _)
copiesOf(phrase, n) == IF n = 0 THEN <<>> ELSE phrase \o copiesOf(phrase, n - 1)

InitClassify ==
    /\ pc = "start"
    /\ input = Null
    /\ \E title \in {<<"C","y","b","e","r"," ","r","i","s","k","s">>, <<"A","I">>, <<"R","i","s","k",":"," ","c","y","b","e","r","-","r","i","s","k">>}, n \in 0..MaxCopies,
          tags \in {<<>>, <<<<"p","r","i","v","a","c","y">>>>, <<<<"r","i","s","k","y">>, <<"d","a","t","a">>>>} :
           papers = <<[title |-> title, abstract |-> copiesOf(ClassifiedPhrase, n), tags |-> tags]>>
    /\ output = Null

RunClassifyPaperTopics ==
    /\ pc = "start"
    /\ output' = classifyPaperTopics(papers[1])
    /\ pc' = "classified"
    /\ UNCHANGED <<input, papers>>

NextClassify == RunClassifyPaperTopics

SpecClassify == InitClassify /\ [][NextClassify]_vars

\* The text classifyPaperTopics scores
fullTextOf(paper) ==
    toLowerCase(paper.title \o <<" ">> \o paper.abstract \o <<" ">> \o join(paper.tags, <<" ">>))

\* Whole-word occurrences in text of the keywords of topic number t: the
\* places where a keyword stands with no word character before or after it
rawCount(text, t) ==
    LET keywords == TOPIC_KEYWORDS[t].keywords
        stands(k, i) ==
            /\ i + Len(keywords[k]) - 1 <= Len(text)
            /\ \A c \in 1..Len(keywords[k]) : text[i + c - 1] = keywords[k][c]
            /\ i > 1 => ~IsWordChar(text[i - 1])
            /\ i + Len(keywords[k]) <= Len(text) => ~IsWordChar(text[i + Len(keywords[k])])
    IN  Cardinality({<<k, i>> \in (1..Len(keywords)) \X (1..Len(text)) : stands(k, i)})

\* C22 as stated: for every topic score = rawCount / (L / 100), whatever the
\* length L of the text.
C22_ScoreIsCountPerHundredChars ==
    pc = "classified" =>
        \A t \in 1..Len(output) :
            output[t].score.num * Len(fullTextOf(papers[1]))
                = 100 * rawCount(fullTextOf(papers[1]), t) * output[t].score.den

\* C22, amended: for every topic score = rawCount / max(L / 100, 1): the
\* count itself for texts of up to 100 characters.
C22_ScoreIsCountPerHundredCharsAtLeastOne ==
    pc = "classified" =>
        /\ Len(output) = Len(TOPIC_KEYWORDS)
        /\ \A t \in 1..Len(output) :
               /\ output[t].topic = TOPIC_KEYWORDS[t].topic
               /\ output[t].score.num * (IF Len(fullTextOf(papers[1])) > 100
                                         THEN Len(fullTextOf(papers[1])) ELSE 100)
                      = 100 * rawCount(fullTextOf(papers[1]), t) * output[t].score.den

\* "Cyber risks" with one copy of the phrase (27 characters): two
\* whole-word occurrences of risk keywords, score 2
C22_Witness ==
    /\ pc = "classified"
    /\ papers[1].title = <<"C","y","b","e","r"," ","r","i","s","k","s">>
    /\ papers[1].abstract = ClassifiedPhrase
    /\ papers[1].tags = <<>>
    /\ output[3] = [topic |-> "risk", score |-> [num |-> 200, den |-> 100]]
-----------------------------------------------------------------------------
(* generateTopicClusters on datasets of papers about security only, about  *)
(* risk only, and about both.  Titles differ from paper to paper; the key  *)
(* of a paper is its own, or one key is shared by a security paper and a   *)
(* risk paper, as generateKey yields for a common first author and opening *)
(* words.                                                                  *)

\* Most papers about one of the two topics only
MaxOnly == 9

\* Most papers about both topics
MaxBoth == 2

clusteredPaper(words, mark, i, key) ==
    [key |-> key, title |-> words \o Rep(mark, i), abstract |-> <<>>, tags |-> <<>>]

clusteredPapers(nSecurity, nRisk, nBoth, sharedKey) ==
    [i \in 1..nSecurity |->
        clusteredPaper(<<"a","t","t","a","c","k"," ">>, "x", i, IF sharedKey /\ i = 1 THEN <<"l","e","e","_","c","y","b","e","r">> ELSE <<"s">> \o Rep("x", i))]
    \o [i \in 1..nRisk |->
        clusteredPaper(<<"r","i","s","k"," ">>, "y", i, IF sharedKey /\ i = 1 THEN <<"l","e","e","_","c","y","b","e","r">> ELSE <<"r">> \o Rep("y", i))]
    \o [i \in 1..nBoth |-> clusteredPaper(<<"a","t","t","a","c","k"," ","r","i","s","k"," ">>, "z", i, <<"b">> \o Rep("z", i))]

InitClusters ==
    /\ pc = "start"
    /\ \E nSecurity \in 0..MaxOnly, nRisk \in 0..MaxOnly, nBoth \in 0..MaxBoth, sharedKey \in BOOLEAN :
           /\ sharedKey => (nSecurity >= 1 /\ nRisk >= 1)
           /\ input = [sharedKey |-> sharedKey]
           /\ papers = clusteredPapers(nSecurity, nRisk, nBoth, sharedKey)
    /\ output = Null

RunGenerateTopicClusters ==
    /\ pc = "start"
    /\ output' = generateTopicClusters(papers)
    /\ pc' = "clustered"
    /\ UNCHANGED <<input, papers>>

NextClusters == RunGenerateTopicClusters

SpecClusters == InitClusters /\ [][NextClusters]_vars

\* The papers of the dataset that are in cluster a and in cluster b
inBoth(a, b) ==
    {i \in 1..Len(papers) :
        /\ \E k \in 1..Len(a.papers) : a.papers[k] = papers[i]
        /\ \E k \in 1..Len(b.papers) : b.papers[k] = papers[i]}

lists(a, b) == \E c \in 1..Len(a.connections) : a.connections[c] = b.id

\* C23: cluster A lists cluster B in its connections exactly when
\* (papers in both) / min(|A|, |B|) exceeds 10%; A lists B if and only if
\* B lists A; no cluster lists itself.
C23_LinkedByOverlap ==
    pc = "clustered" =>
        \A a, b \in 1..Len(output) :
            LET A == output[a]
                B == output[b]
                smaller == IF A.size < B.size THEN A.size ELSE B.size
            IN  /\ ~lists(A, A)
                /\ lists(A, B) <=> lists(B, A)
                /\ a # b => (lists(A, B) <=> 10 * Cardinality(inBoth(A, B)) > smaller)
-----------------------------------------------------------------------------
(* Years flagged by the temporal gap analysis                              *)

\* Papers of the corpus in the three years before and the three years
\* after year y
aroundYear(y) == sumOver([k \in 1..6 |-> papersIn(IF k <= 3 THEN y - 4 + k ELSE y - 3 + k)], 1)

\* Output gap g is a temporal gap that covers year y
flagsYear(g, y) ==
    /\ output[g].type = "temporal"
    /\ \E r \in 1..Len(output[g].evidence.temporalGaps) :
           /\ output[g].evidence.temporalGaps[r].startYear <= y
           /\ y <= output[g].evidence.temporalGaps[r].endYear

\* C24: every year with three years of the corpus on either side whose
\* paper count is more than 5 below the mean of those six years is flagged
\* as a temporal gap in the output, with severity high when it is more than
\* 20 below.
C24_LowYearsAreFlagged ==
    pc = "done" =>
        \A y \in 2016..(2009 + MaxYears) :
            /\ 6 * (papersIn(y) + 5) < aroundYear(y)
                   => \E g \in 1..Len(output) : flagsYear(g, y)
            /\ 6 * (papersIn(y) + 20) < aroundYear(y)
                   => \E g \in 1..Len(output) : flagsYear(g, y) /\ output[g].severity = "high"
-----------------------------------------------------------------------------
(* Topical gap analysis (researchGapAnalysis.ts): intersections of topic    *)
(* clusters with fewer shared papers than expected                          *)

\* assessDomainDifference: 1.5 for labels of different domains, 1.0 otherwise
assessDomainDifference(topic1, topic2) ==
    LET domainOf(label) ==
            CASE label \in {"AI/ML", "Network", "Privacy"} -> "technical"
              [] label \in {"Economics", "Risk Management"} -> "economic"
              [] label \in {"Game Theory", "Security"} -> "theoretical"
              [] OTHER -> "other"
    IN  IF domainOf(topic1) # domainOf(topic2) THEN [num |-> 3, den |-> 2] ELSE [num |-> 1, den |-> 1]

\* Math.min(1, ((topic1.coverage + topic2.coverage) / 200) * domainDifference)
calculateTopicComplementarity(topic1, topic2) ==
    LET domainDifference == assessDomainDifference(topic1.label, topic2.label)
        num == domainDifference.num * (topic1.coverage.num * topic2.coverage.den
                                           + topic2.coverage.num * topic1.coverage.den)
        den == 200 * domainDifference.den * topic1.coverage.den * topic2.coverage.den
    IN  IF num > den THEN [num |-> 1, den |-> 1] ELSE [num |-> num, den |-> den]

RECURSIVE gcd(_, _)
gcd(a, b) == IF b = 0 THEN a ELSE gcd(b, a % b)

\* (topic1.coverage / 100) * (topic2.coverage / 100), in lowest terms
expectedRatioOf(topic1, topic2) ==
    LET num == topic1.coverage.num * topic2.coverage.num
        den == 10000 * topic1.coverage.den * topic2.coverage.den
    IN  [num |-> num \div gcd(num, den), den |-> den \div gcd(num, den)]

\* Math.round(this.papers.length * expectedRatio * 0.3)
expectedPapersOf(corpusSize, topic1, topic2) ==
    LET expectedRatio == expectedRatioOf(topic1, topic2)
        num == 3 * corpusSize * expectedRatio.num
        den == 10 * expectedRatio.den
    IN  (2 * num + den) \div (2 * den)

\* intersections.sort((a, b) => b.gapSize - a.gapSize): stable, descending
RECURSIVE sortByGapSize(_, _, _)
sortByGapSize(intersections, i, sorted) ==
    IF i > Len(intersections) THEN sorted
    ELSE LET ahead == Cardinality({k \in 1..Len(sorted) :
                          sorted[k].gapSize >= intersections[i].gapSize})
         IN  sortByGapSize(intersections, i + 1,
                 SubSeq(sorted, 1, ahead) \o <<intersections[i]>>
                     \o SubSeq(sorted, ahead + 1, Len(sorted)))

findTopicIntersections(list, topicClusters) ==
    LET pairAt(i, j) ==
            LET topic1 == topicClusters[i]
                topic2 == topicClusters[j]
                intersection == SelectSeq(topic1.papers, LAMBDA p1 :
                                    \E k \in 1..Len(topic2.papers) : topic2.papers[k].key = p1.key)
                expectedPapers == expectedPapersOf(Len(list), topic1, topic2)
                actualPapers == Len(intersection)
                gapSize == IF expectedPapers > actualPapers THEN expectedPapers - actualPapers ELSE 0
            IN  IF gapSize > 0
                THEN <<[topics |-> <<topic1.label, topic2.label>>,
                        combinedLabel |-> topic1.label \o " + " \o topic2.label,
                        expectedPapers |-> expectedPapers,
                        actualPapers |-> actualPapers,
                        gapSize |-> gapSize,
                        potentialImpact |-> calculateTopicComplementarity(topic1, topic2)]>>
                ELSE <<>>
        RECURSIVE pairsFrom(_, _)
        pairsFrom(i, j) ==
            IF i > Len(topicClusters) THEN <<>>
            ELSE IF j > Len(topicClusters) THEN pairsFrom(i + 1, i + 2)
            ELSE pairAt(i, j) \o pairsFrom(i, j + 1)
    IN  sortByGapSize(pairsFrom(1, 2), 1, <<>>)

\* Labels of the clusters whose share of papers published since
\* currentYear - recentYears satisfies keep(recent, total)
topicsByRecentShare(topicClusters, currentYear, recentYears, keep(_, _)) ==
    LET recentCount(topic) ==
            Len(SelectSeq(topic.papers, LAMBDA p :
                    p.publicationYear # Null /\ p.publicationYear[1] >= currentYear - recentYears))
        kept == SelectSeq(topicClusters, LAMBDA topic : keep(recentCount(topic), Len(topic.papers)))
    IN  [i \in 1..Len(kept) |-> kept[i].label]

\* recentRatio > 0.4 over the last 3 years
identifyEmergingTopics(topicClusters, currentYear) ==
    topicsByRecentShare(topicClusters, currentYear, 3, LAMBDA recent, total : 10 * recent > 4 * total)

\* recentRatio < 0.2 && topic.papers.length > 10 over the last 5 years
identifyStagnantTopics(topicClusters, currentYear) ==
    topicsByRecentShare(topicClusters, currentYear, 5,
                        LAMBDA recent, total : 10 * recent < 2 * total /\ total > 10)

analyzeTopicalGaps(list, topicClusters, currentYear) ==
    LET underResearchedIntersections ==
            SelectSeq(findTopicIntersections(list, topicClusters), LAMBDA intersection :
                /\ intersection.gapSize > 5
                /\ 10 * intersection.potentialImpact.num > 7 * intersection.potentialImpact.den)
        emergingTopics == identifyEmergingTopics(topicClusters, currentYear)
        stagnantTopics == identifyStagnantTopics(topicClusters, currentYear)
    IN  [index \in 1..Len(underResearchedIntersections) |->
            LET intersection == underResearchedIntersections[index]
            IN  [id |-> "topical_" \o ToString(index - 1),
                 type |-> "topical",
                 title |-> "Under-researched: " \o intersection.combinedLabel,
                 severity |-> IF intersection.gapSize > 15 THEN "high"
                              ELSE IF intersection.gapSize > 10 THEN "medium" ELSE "low",
                 evidence |-> [underRepresentedTopics |-> intersection.topics,
                               citationGaps |-> <<>>, temporalGaps |-> <<>>,
                               potentialImpact |-> intersection.potentialImpact,
                               supportingData |-> [expectedPapers |-> intersection.expectedPapers,
                                                   actualPapers |-> intersection.actualPapers,
                                                   gapSize |-> intersection.gapSize]],
                 opportunityScore |-> [num |-> 5 * intersection.potentialImpact.num * intersection.gapSize,
                                       den |-> intersection.potentialImpact.den]]]
        \o (IF Len(stagnantTopics) > 0
            THEN <<[id |-> "topical_stagnant",
                    type |-> "topical",
                    title |-> "Stagnant Research Areas",
                    severity |-> "medium",
                    evidence |-> [underRepresentedTopics |-> stagnantTopics,
                                  citationGaps |-> <<>>, temporalGaps |-> <<>>,
                                  potentialImpact |-> [num |-> 3, den |-> 5],
                                  supportingData |-> [stagnantTopics |-> stagnantTopics,
                                                      emergingTopics |-> emergingTopics]],
                    opportunityScore |-> [num |-> 60, den |-> 1]]>>
            ELSE <<>>)

-----------------------------------------------------------------------------
(* Runs of the topical gap analysis on a corpus whose papers 1..security    *)
(* are in the security cluster, the next papers (from the last `both`       *)
(* security papers on) in the risk cluster and the last `economics` papers  *)
(* in the economics cluster                                                 *)

MaxCorpus == 250

\* Paper i of the corpus; with sameKeyAs > 0 it carries the key of paper
\* sameKeyAs
corpusPaper(i, sameKeyAs, year) ==
    [key |-> <<"p", ToString(IF sameKeyAs > 0 THEN sameKeyAs ELSE i)>>,
     title |-> <<"t", ToString(i)>>,
     publicationYear |-> <<year>>]

InitTopical ==
    /\ pc = "start"
    /\ input \in {[corpusSize |-> n, security |-> a, risk |-> b, both |-> s, economics |-> e,
                   sameKey |-> k, year |-> y, currentYear |-> 2026] :
                     n \in {100, MaxCorpus}, a \in {25, 70, 125, 150, 170}, b \in {25, 30, 70, 85, 125},
                     s \in {0, 1}, e \in {0, 60, 125}, k \in BOOLEAN, y \in {2012, 2025}}
    /\ input.security + input.risk - input.both <= input.corpusSize
    /\ input.economics <= input.corpusSize
    /\ papers = [i \in 1..input.corpusSize |->
                    corpusPaper(i, IF input.sameKey /\ i = input.security + 1 THEN 1 ELSE 0, input.year)]
    /\ output = Null

\* The clusters generateTopicClusters builds from the memberships of the
\* corpus: one cluster per topic with a paper, sorted by coverage
topicClustersOf(list, in) ==
    LET from == in.security - in.both
        topicPapers ==
            <<[topic |-> "security", papers |-> SubSeq(list, 1, in.security)],
              [topic |-> "risk", papers |-> SubSeq(list, from + 1, from + in.risk)]>>
            \o (IF in.economics > 0
                THEN <<[topic |-> "economics",
                        papers |-> SubSeq(list, Len(list) - in.economics + 1, Len(list))]>>
                ELSE <<>>)
    IN  sortByCoverage([i \in 1..Len(topicPapers) |->
                           [id |-> topicPapers[i].topic,
                            label |-> formatTopicLabel(topicPapers[i].topic),
                            size |-> Len(topicPapers[i].papers),
                            papers |-> topicPapers[i].papers,
                            connections |-> findTopicConnections(topicPapers[i].topic, topicPapers),
                            coverage |-> percentOf(Len(topicPapers[i].papers), Len(list))]],
                       1, <<>>)

RunAnalyzeTopicalGaps ==
    /\ pc = "start"
    /\ output' = analyzeTopicalGaps(papers, topicClustersOf(papers, input), input.currentYear)
    /\ pc' = "done"
    /\ UNCHANGED <<input, papers>>

NextTopical == RunAnalyzeTopicalGaps

SpecTopical == InitTopical /\ [][NextTopical]_vars

\* The gaps of the output that report the intersection of the clusters
\* labelled a and b
reportsOf(a, b) ==
    {g \in 1..Len(output) : output[g].id # "topical_stagnant"
                                /\ output[g].evidence.underRepresentedTopics \in {<<a, b>>, <<b, a>>}}

\* Number of papers that are in both clusters
sharedPapers(c1, c2) ==
    Cardinality({i \in 1..Len(c1.papers) : \E j \in 1..Len(c2.papers) : c2.papers[j] = c1.papers[i]})

\* C25: for every pair of topic clusters, with expected = corpusSize x
\* coverageA/100 x coverageB/100 x 0.3 (the fraction e.num / e.den), gapSize =
\* max(0, expected - shared papers) and impact the pair's complementarity,
\* the intersection is reported exactly when gapSize > 5 and impact > 0.7,
\* once, with severity high when gapSize > 15, medium when gapSize > 10 and
\* low otherwise.
C25_IntersectionReportedByGapAndImpact ==
    pc = "done" =>
        LET clusters == topicClustersOf(papers, input)
        IN  \A i \in 1..Len(clusters), j \in 1..Len(clusters) :
                i < j =>
                    LET c1 == clusters[i]
                        c2 == clusters[j]
                        e == [num |-> 3 * Len(papers) * expectedRatioOf(c1, c2).num,
                              den |-> 10 * expectedRatioOf(c1, c2).den]
                        actual == sharedPapers(c1, c2)
                        gapOver(t) == e.num > (actual + t) * e.den
                        impact == calculateTopicComplementarity(c1, c2)
                        reports == reportsOf(c1.label, c2.label)
                    IN  /\ (reports # {}) <=> (gapOver(5) /\ 10 * impact.num > 7 * impact.den)
                        /\ \A g \in reports :
                               output[g].severity = IF gapOver(15) THEN "high"
                                                    ELSE IF gapOver(10) THEN "medium" ELSE "low"
                        /\ Cardinality(reports) <= 1
-----------------------------------------------------------------------------
(* Identities of the author network and contents of the author profiles     *)

\* Number of profiles of the analysis whose cleanName is name
profilesNamed(name) == Cardinality({a \in 1..Len(output.authors) : output.authors[a].cleanName = name})

\* C26: in the result of analyzeAuthorNetwork every endpoint of every
\* collaboration edge and every member of every community is the cleanName
\* of exactly one profile of authors.
C26_NetworkUsesProfileIdentities ==
    pc = "done" =>
        /\ \A e \in 1..Len(output.collaborations) :
               /\ profilesNamed(output.collaborations[e].source) = 1
               /\ profilesNamed(output.collaborations[e].target) = 1
        /\ \A c \in 1..Len(output.communities) :
               \A m \in 1..Len(output.communities[c].members) :
                   profilesNamed(output.communities[c].members[m]) = 1

\* C27: in every profile built by buildAuthorProfiles, papers holds each
\* paper at most once and paperCount is the number of distinct papers of
\* the profile.
C27_ProfilePapersAreDistinct ==
    pc = "done" =>
        \A a \in 1..Len(output.authors) :
            LET profile == output.authors[a]
            IN  /\ \A i, j \in 1..Len(profile.papers) :
                       profile.papers[i] = profile.papers[j] => i = j
                /\ profile.paperCount = Cardinality({profile.papers[i] : i \in 1..Len(profile.papers)})
-----------------------------------------------------------------------------
(* Completion of the requests of the citation service                       *)

\* C28: every makeRequest call eventually completes, with a JSON value or
\* null, whatever the remote service answers (HTTP 429 to every attempt
\* included): a citation request that has been issued eventually settles.
C28_EveryRequestCompletes ==
    \A p \in 1..(MaxEnriched + 1) :
        (papers[p].citation = "fetching") ~> (papers[p].citation \in {"null", "data"})
-----------------------------------------------------------------------------
(* PaperDetailModal (src/src/components/PaperDetailModal.tsx) under the App *)
(* that mounts it (src/unnamed/part_002).  input is the App's state handed  *)
(* to the modal as props (selectedPaper, isPaperModalOpen) with the number  *)
(* of selections made; output is the modal's state (citationData, named by  *)
(* the key of the paper it was fetched for, and loading); papers holds the  *)
(* loadPaperDetails calls waiting for enrichPaperData, each with the paper  *)
(* of the render that started it.                                           *)

MaxSelections == 4

ModalPapers == {"lee_cyber", "roe_risk", "poe_cost"}

InitModal ==
    /\ pc = "mounted"
    /\ input = [selectedPaper |-> Null, isPaperModalOpen |-> FALSE, selections |-> 0]
    /\ papers = <<>>
    /\ output = [citationData |-> Null, loading |-> FALSE]

\* handlePaperSelect(paper), the render and the modal's effect on
\* [paper, isOpen]: when either changed, loadPaperDetails runs up to its
\* await
HandlePaperSelect ==
    \E paper \in ModalPapers :
        /\ input.selections < MaxSelections
        /\ input' = [selectedPaper |-> <<paper>>, isPaperModalOpen |-> TRUE,
                     selections |-> input.selections + 1]
        /\ IF input.selectedPaper # <<paper>> \/ ~input.isPaperModalOpen
           THEN /\ output' = [output EXCEPT !.loading = TRUE]
                /\ papers' = Append(papers, [paper |-> paper])
           ELSE UNCHANGED <<output, papers>>
        /\ UNCHANGED pc

\* onClose: setIsPaperModalOpen(false); the effect finds isOpen false
OnClose ==
    /\ input.isPaperModalOpen
    /\ input' = [input EXCEPT !.isPaperModalOpen = FALSE]
    /\ UNCHANGED <<pc, papers, output>>

\* One enrichPaperData([paper], 1) call resolves, with citation data for its
\* paper or without, and loadPaperDetails runs on from its await
EnrichPaperDataResolves ==
    \E r \in 1..Len(papers), found \in BOOLEAN :
        /\ output' = [citationData |-> IF found THEN <<papers[r].paper>> ELSE output.citationData,
                      loading |-> FALSE]
        /\ papers' = SubSeq(papers, 1, r - 1) \o SubSeq(papers, r + 1, Len(papers))
        /\ UNCHANGED <<pc, input>>

NextModal ==
    \/ HandlePaperSelect
    \/ OnClose
    \/ EnrichPaperDataResolves

SpecModal == InitModal /\ [][NextModal]_vars

\* C29: the citation data the open modal holds belongs to the selected
\* paper.
C29_CitationDataOfSelectedPaper ==
    (input.isPaperModalOpen /\ output.citationData # Null)
        => output.citationData = input.selectedPaper
-----------------------------------------------------------------------------
(* The app's filtered papers                                                *)

\* C30: once the data is loaded, after any sequence of the app's filter and
\* search handlers, filteredPapers is the list of the papers of the dataset
\* that satisfy every selected year-range, topic and author filter; after
\* clearFilters it is the full list of papers.
C30_FilteredPapersFollowFilters ==
    /\ [](pc = "loaded" =>
            papers = filterPapers(output, input.selectedYearRange, input.selectedTopic,
                                  input.selectedAuthor))
    /\ [][ClearFilters => papers' = output'.papers]_vars

=============================================================================
